---- MODULE Spec2Model ----
(***************************************************************************)
(* Ingestion-and-retrieval pipeline of learntherepo:                       *)
(*   - the tool-augmented completion loop  (chat/lib/llm.ts)               *)
(*   - the embedding batch pipeline        (data-aggregate/lib/embedder.ts)*)
(*   - the retrieval sufficiency policy    (chat/lib/rag.ts)               *)
(*   - document ingestion and storage      (data-aggregate/index.ts,       *)
(*                                          data-aggregate/lib/storage.ts) *)
(* Each component has its own specification over the shared variables; a   *)
(* specification leaves the variables of the other components unchanged.   *)
(***************************************************************************)
EXTENDS Integers, Sequences, FiniteSets, TLC

VARIABLES
  \* ---- tool-augmented completion loop (generateChatCompletionWithTools)
  lpc,              \* position of the loop: see LoopStates
  messages,         \* the caller's message list (argument)
  currentMessages,  \* the loop's working copy of the conversation
  iterationCount,   \* let iterationCount
  totalUsage,       \* accumulated token usage
  response,         \* the model response being processed
  toolIdx,          \* position of the for-of loop over response.toolCalls
  modelCalls,       \* number of callOpenAI calls made by this run
  toolsRequested,   \* number of tool calls requested so far in this run
  tavilyApiKey,     \* TRUE when the caller passed a search key
  loopResult,       \* the returned LLMResponse, or NoResult
  loopError,        \* the raised error, or "none"
  toolLog,          \* history: the tool calls executed, with their outcome
  usageLog,         \* history: the usage reported by each answered model call
  \* ---- embedding batch pipeline (generateEmbeddingsBatch / generateEmbeddings)
  epc,              \* position of the call: see EmbedStates
  texts,            \* argument: the texts to embed
  batchSize,        \* config.batchSize
  direct,           \* TRUE on the single-batch path (texts.length <= batchSize)
  batchStart,       \* loop variable i of the sub-batch loop
  validTexts,       \* generateEmbeddings: the request input after filtering
  attempt,          \* generateEmbeddings: loop variable attempt
  allEmbeddings,    \* generateEmbeddingsBatch: accumulated embeddings
  embedResult,      \* the value returned to the caller, or NoResult
  embedError,       \* the error raised to the caller, or "none"
  attemptLog,       \* history: outcome and sleep of each attempt of this sub-batch
  providerOrder,    \* history: the item order of each answer of the provider
  batchesDone,      \* history: number of sub-batches embedded
  remoteCalls,      \* history: number of requests sent to the provider
  \* ---- retrieval policy (prepareContext / isContextSufficient)
  rpc,              \* "input", or the function that was applied last
  sources,          \* argument: the retrieved matches, best first
  maxLength,        \* argument of prepareContext
  prepared,         \* value returned by prepareContext
  sufficient,       \* value returned by isContextSufficient
  \* ---- ingestion (data-aggregate request handler) and its storage
  ipc,              \* position of the handler: see IngestStates
  repositories,     \* table repositories: TRUE when the repository row exists
  documents,        \* table documents: rows [url, content]
  document_chunks,  \* table document_chunks: rows [id, document_id, chunk_index, chunk_text]
  embeddings,       \* table embeddings: rows [chunk_id, embedding]
  nextChunkId,      \* the next fresh row id of document_chunks
  allDocuments,     \* the documents fetched by this run
  docIdx,           \* position of the for-of loop over allDocuments
  chunks,           \* value returned by chunkMarkdown for the current document
  chunkRecords,     \* value returned by storeChunks for the current document
  embeddingResult,  \* value returned by generateEmbeddingsBatch
  stats,            \* the counters of this run
  httpStatus,       \* status of the last response, 0 before the first
  runs,             \* number of requests handled so far
  lastRun,          \* history: per document, what the latest run did with it
  \* ---- retrieval (retrieveContext and the match_documents function)
  qpc,              \* "call" before retrieveContext has run, "returned" / "failed" after
  indexed,          \* the embedded chunks in storage: rows [chunk_id, repository, similarity]
  repoScope,        \* arguments repositoryOwner / repositoryName / repositoryRef
  ragConfig,        \* argument config: [matchThreshold, matchCount], Undefined when absent
  ragSources,       \* value returned by retrieveContext
  ragError,         \* the error raised by retrieveContext, or "none"
  ragReport,        \* what performRAG returned, once it has
  \* ---- documentation crawl (crawlInBatches / crawlUrl)
  cpc,              \* position of crawlInBatches: see CrawlStates
  links,            \* argument: the documentation links
  crawlBatchSize,   \* argument batchSize
  crawlIndex,       \* loop variable i
  requests,         \* per link, the promise of its crawlUrl call
  results,          \* const results
  crawlReturn,      \* the array returned by crawlInBatches
  crawlError,       \* the error crawlInBatches ended with, or "none"
  \* ---- chat request handlers (handleInit / handleMessage) and their storage
  hpc,              \* position of the handler: see ChatStates
  chatRepository,   \* the repository in storage: "absent", "unprocessed", "processed"
  chatSessions,     \* table chat_sessions: number of rows
  chatHistory,      \* table chat_messages: the roles of the stored messages
  envTavilyKey,     \* TRUE when TAVILY_API_KEY is configured
  chatRequests,     \* number of requests handled so far
  hForce,           \* handleInit: request.force
  hFound,           \* handleInit: the first getRepository returned a row
  hStatus,          \* handleInit: let status
  hProcessCalls,    \* history: the force flags of this request's processRepository calls
  ragResult,        \* handleMessage: value returned by performRAG
  completion,       \* history: the arguments of this request's completion call
  chatResponse,     \* the last response
  \* ---- two concurrent data-aggregate runs for one repository and document
  aggRuns,          \* per run: its position and its local variables
  aggStore,         \* the rows stored for the repository and the document
  \* ---- one call of storeEmbeddings
  storeCall,        \* its arguments, the stored embeddings and its outcome
  \* ---- the HTTP requests of one generateChatCompletionWithTools call
  apc,              \* position: in the while loop, in callOpenAI, or ended
  apiIteration,     \* iterationCount of the while loop
  apiAttempt,       \* attempt of the for loop of callOpenAI
  callRequests,     \* requests sent by the present callOpenAI call
  httpRequests,     \* requests sent since generateChatCompletionWithTools began
  apiError          \* the error thrown, or "none"

lvars == <<lpc, messages, currentMessages, iterationCount, totalUsage,
           response, toolIdx, modelCalls, toolsRequested, tavilyApiKey,
           loopResult, loopError, toolLog, usageLog>>

evars == <<epc, texts, batchSize, direct, batchStart, validTexts, attempt,
           allEmbeddings, embedResult, embedError, attemptLog, providerOrder,
           batchesDone, remoteCalls>>

rvars == <<rpc, sources, maxLength, prepared, sufficient>>

ivars == <<ipc, repositories, documents, document_chunks, embeddings, nextChunkId,
           allDocuments, docIdx, chunks, chunkRecords, embeddingResult, stats,
           httpStatus, runs, lastRun>>

qvars == <<qpc, indexed, repoScope, ragConfig, ragSources, ragError, ragReport>>

cvars == <<cpc, links, crawlBatchSize, crawlIndex, requests, results, crawlReturn,
           crawlError>>

hvars == <<hpc, chatRepository, chatSessions, chatHistory, envTavilyKey,
           chatRequests, hForce, hFound, hStatus, hProcessCalls, ragResult,
           completion, chatResponse>>

xvars == <<aggRuns, aggStore>>

svars == <<storeCall>>

avars == <<apc, apiIteration, apiAttempt, callRequests, httpRequests, apiError>>

vars == <<lvars, evars, rvars, ivars, qvars, cvars, hvars, xvars, svars, avars>>

(***************************************************************************)
(* Bounds of the model                                                     *)
(***************************************************************************)
\* most tool calls the model requests in one response
MaxCallsPerResponse == 2
\* most tool calls the model requests over one run of the loop
MaxToolCallsPerRun == 5
\* longest list of texts handed to generateEmbeddingsBatch
MaxTexts == 3
\* largest configured batchSize
MaxBatchSize == 2
\* longest list of retrieved matches
MaxSources == 3
\* most documents fetched by one run
MaxDocs == 2
\* most links of one crawl
MaxLinks == 5

\* largest batch size of a crawl
MaxCrawlBatchSize == 4

\* most chunk records in one call of storeEmbeddings
MaxRecords == 2

\* most chunks of the document in one run
MaxChunksPerRun == 2

\* most chat requests
MaxChatRequests == 3

\* most data-aggregate requests
MaxRuns == 2
\* most stored chunks of one repository with one similarity to the query
MaxRowsPerScore == 6

(***************************************************************************)
(* Helpers                                                                 *)
(***************************************************************************)
Min(a, b) == IF a <= b THEN a ELSE b

Range(s) == {s[i] : i \in 1..Len(s)}

\* the permutations of 1..n, as sequences
Perms(n) == {p \in [1..n -> 1..n] : \A i, j \in 1..n : p[i] = p[j] => i = j}

(***************************************************************************)
(* Tool-augmented completion loop                                          *)
(***************************************************************************)
\* MCP_CONFIG
MCP_enabled == TRUE
maxToolCalls == 5

LoopStates == {"awaiting_model", "executing_tools", "done", "exhausted", "failed"}
LoopTerminal == {"done", "exhausted", "failed"}

NoResult == [kind |-> "none"]
NoResponse == [content |-> "", toolCalls |-> <<>>,
               usage |-> [promptTokens |-> 0, completionTokens |-> 0, totalTokens |-> 0]]

\* an OpenAIChatMessage; absent optional fields are "" / 0 / <<>>; content is
\* a TextContent or an ErrorContent
Message(role, content, toolCallId, name, toolCalls) ==
  [role |-> role, content |-> content, tool_call_id |-> toolCallId,
   name |-> name, tool_calls |-> toolCalls]

\* what the model may put in one requested call: the function name and
\* whether function.arguments is parseable JSON
ToolNames == {"tavily_search", "unknown_tool"}
ToolCallTemplates ==
  { [name |-> "tavily_search", arguments |-> "json"],
    [name |-> "tavily_search", arguments |-> "not_json"],
    [name |-> "unknown_tool",  arguments |-> "json"] }

\* how the search service behaves on the request made by searchTavily: it
\* answers in full; it sends nothing before the abort timer fires; or it
\* sends the response head in time and never completes the body
SearchOutcomes == {"ok", "timeout", "stalled_body"}

\* an awaited promise that never settles
Pending == [ok |-> FALSE, value |-> "pending"]
Resolves(r) == r # Pending

\* JSON.parse(toolCall.function.arguments)
JSONparse(arguments) ==
  IF arguments = "json" THEN [ok |-> TRUE, value |-> "params"]
  ELSE [ok |-> FALSE, value |-> "Unexpected token"]

\* searchTavily: resolves with results, or throws (timeout -> AbortError,
\* rethrown as a timeout error); the timer is cleared as soon as fetch
\* resolves with the response head, so await response.json() is unbounded
searchTavily(outcome) ==
  IF outcome = "ok" THEN [ok |-> TRUE, value |-> "search_results"]
  ELSE IF outcome = "timeout" THEN [ok |-> FALSE, value |-> "Tavily search timeout"]
  ELSE Pending

\* executeToolCall(toolName, toolParams, tavilyApiKey); a thrown error is
\* [ok |-> FALSE, value |-> message]
executeToolCall(toolName, hasKey, outcome) ==
  IF ~MCP_enabled THEN [ok |-> FALSE, value |-> "MCP tools are not enabled"]
  ELSE IF toolName = "tavily_search"
    THEN IF ~hasKey THEN [ok |-> FALSE, value |-> "Tavily API key not provided"]
         ELSE searchTavily(outcome)
    ELSE [ok |-> FALSE, value |-> "Unknown tool"]

\* message content: plain text, or the text of JSON.stringify({ error: errorMessage })
TextContent(text) == [error |-> FALSE, text |-> text]
ErrorContent(errorMessage) == [error |-> TRUE, text |-> errorMessage]

\* the try block for one tool call: JSON.parse, then executeToolCall
ToolOutcome(toolCall, hasKey, outcome) ==
  LET params == JSONparse(toolCall.arguments) IN
    IF ~params.ok THEN params
    ELSE executeToolCall(toolCall.name, hasKey, outcome)

\* a catch block that lets the error escape instead of folding it back
CatchToolError_rethrow(r) == [caught |-> FALSE, content |-> ErrorContent(r.value)]

\* the catch block of the tool call: the error message becomes the content
\* of the tool message
CatchToolError(r) == [caught |-> TRUE, content |-> ErrorContent(r.value)]

\* usage reported by the provider for one request: the prompt grows with
\* the conversation sent, the completion with the calls requested
ProviderUsage(sent, calls) ==
  [promptTokens |-> Len(sent), completionTokens |-> 1 + Len(calls),
   totalTokens |-> Len(sent) + 1 + Len(calls)]

\* the orders in which the identifiers of one response come: ascending or
\* descending
IdOrders(n) == { [i \in 1..n |-> i], [i \in 1..n |-> n + 1 - i] }

\* the tool calls of one response: n templates with call identifiers that
\* are unique in the run
ToolCallLists(iter, n) ==
  { [i \in 1..n |-> [id |-> 10 * iter + p[i], name |-> t[i].name,
                      arguments |-> t[i].arguments]] :
      p \in IdOrders(n), t \in [1..n -> ToolCallTemplates] }

\* an accumulator that keeps only the usage of the latest model call
AccumulateUsage_latestOnly(total, usage) == usage

\* totalUsage.promptTokens += ...; completionTokens += ...; totalTokens += ...
AccumulateUsage(total, usage) ==
  [promptTokens |-> total.promptTokens + usage.promptTokens,
   completionTokens |-> total.completionTokens + usage.completionTokens,
   totalTokens |-> total.totalTokens + usage.totalTokens]

\* an assistant message that leaves the tool-call requests out
AssistantMessage_withoutCalls(resp) ==
  Message("assistant", TextContent(resp.content), 0, "", <<>>)

\* { role: 'assistant', content: response.content || '', tool_calls: response.toolCalls }
AssistantMessage(resp) ==
  Message("assistant", TextContent(resp.content), 0, "", resp.toolCalls)

\* a tool message that does not say which call it answers
ToolMessage_withoutId(toolCall, content) ==
  Message("tool", content, 0, toolCall.name, <<>>)

\* { role: 'tool', tool_call_id: toolCall.id, name: toolCall.function.name, content }
ToolMessage(toolCall, content) ==
  Message("tool", content, toolCall.id, toolCall.name, <<>>)

\* a conversation that keeps only the latest exchange after the prompt
push_dropOlder(conversation, message) ==
  IF Len(conversation) > 3
    THEN Append(SubSeq(conversation, 1, 2), message)
    ELSE Append(conversation, message)

\* currentMessages.push(message)
push(conversation, message) == Append(conversation, message)

InitialMessages ==
  << Message("system", TextContent("prompt"), 0, "", <<>>),
     Message("user", TextContent("question"), 0, "", <<>>) >>

(***************************************************************************)
(* The state of a component that is not running                            *)
(***************************************************************************)
EmbedIdle ==
  /\ epc = "idle"
  /\ texts = <<>>
  /\ batchSize = 0
  /\ direct = FALSE
  /\ batchStart = 0
  /\ validTexts = <<>>
  /\ attempt = 0
  /\ allEmbeddings = <<>>
  /\ embedResult = NoResult
  /\ embedError = "none"
  /\ attemptLog = <<>>
  /\ providerOrder = <<>>
  /\ batchesDone = 0
  /\ remoteCalls = 0

Urls == {"u1", "u2"}

NoRun == [outcome |-> "none", chunks |-> <<>>, embeddings |-> <<>>,
          before |-> [chunks |-> {}, embeddings |-> {}],
          processed |-> 0, repeated |-> FALSE]

IngestIdle ==
  /\ ipc = "idle"
  /\ repositories = FALSE
  /\ documents = {}
  /\ document_chunks = {}
  /\ embeddings = {}
  /\ nextChunkId = 1
  /\ allDocuments = <<>>
  /\ docIdx = 0
  /\ chunks = <<>>
  /\ chunkRecords = <<>>
  /\ embeddingResult = NoResult
  /\ stats = [documentsProcessed |-> 0, chunksCreated |-> 0,
              embeddingsCreated |-> 0, documentsSkipped |-> 0,
              documentsFailed |-> 0]
  /\ httpStatus = 0
  /\ runs = 0
  /\ lastRun = [u \in Urls |-> NoRun]

RagIdle ==
  /\ rpc = "idle"
  /\ sources = <<>>
  /\ maxLength = 0
  /\ prepared = [sources |-> <<>>, truncated |-> FALSE]
  /\ sufficient = FALSE

\* config?.matchThreshold / config?.matchCount when config leaves them out
Undefined == 0 - 1

RetrieveIdle ==
  /\ qpc = "idle"
  /\ indexed = <<>>
  /\ repoScope = ""
  /\ ragConfig = [matchThreshold |-> Undefined, matchCount |-> Undefined]
  /\ ragSources = <<>>
  /\ ragError = "none"
  /\ ragReport = NoResult

StoreCallIdle == storeCall = <<>>

ApiIdle ==
  /\ apc = "idle"
  /\ apiIteration = 0
  /\ apiAttempt = 0
  /\ callRequests = 0
  /\ httpRequests = 0
  /\ apiError = "none"

RaceIdle ==
  /\ aggRuns = <<>>
  /\ aggStore = [repositories |-> 0, documents |-> 0, chunks |-> {},
                 embeddings |-> {}, nextId |-> 1]

NoChatResponse == [success |-> FALSE, error |-> "none", status |-> "none"]

NoCompletion == [called |-> FALSE, tools |-> <<>>, context |-> <<>>, grounded |-> FALSE]

ChatIdle ==
  /\ hpc = "idle"
  /\ chatRepository = "absent"
  /\ chatSessions = 0
  /\ chatHistory = <<>>
  /\ envTavilyKey = FALSE
  /\ chatRequests = 0
  /\ hForce = FALSE
  /\ hFound = FALSE
  /\ hStatus = "existing"
  /\ hProcessCalls = <<>>
  /\ ragResult = [sources |-> <<>>, useFallback |-> FALSE]
  /\ completion = NoCompletion
  /\ chatResponse = NoChatResponse

CrawlIdle ==
  /\ cpc = "idle"
  /\ links = <<>>
  /\ crawlBatchSize = 0
  /\ crawlIndex = 0
  /\ requests = <<>>
  /\ results = <<>>
  /\ crawlReturn = <<>>
  /\ crawlError = "none"

LoopIdle ==
  /\ lpc = "idle"
  /\ messages = <<>>
  /\ currentMessages = <<>>
  /\ iterationCount = 0
  /\ totalUsage = [promptTokens |-> 0, completionTokens |-> 0, totalTokens |-> 0]
  /\ response = NoResponse
  /\ toolIdx = 0
  /\ modelCalls = 0
  /\ toolsRequested = 0
  /\ tavilyApiKey = FALSE
  /\ loopResult = NoResult
  /\ loopError = "none"
  /\ toolLog = <<>>
  /\ usageLog = <<>>

\* a loop condition that admits one iteration too many
LoopCondition_offByOne(count) == count <= maxToolCalls

\* while (iterationCount < MCP_CONFIG.maxToolCalls)
LoopCondition(count) == count < maxToolCalls

LoopInit ==
  /\ lpc = "awaiting_model"
  /\ messages = InitialMessages
  /\ currentMessages = InitialMessages
  /\ iterationCount = 0
  /\ totalUsage = [promptTokens |-> 0, completionTokens |-> 0, totalTokens |-> 0]
  /\ response = NoResponse
  /\ toolIdx = 0
  /\ modelCalls = 0
  /\ toolsRequested = 0
  /\ tavilyApiKey \in BOOLEAN
  /\ loopResult = NoResult
  /\ loopError = "none"
  /\ toolLog = <<>>
  /\ usageLog = <<>>
  /\ EmbedIdle
  /\ RagIdle
  /\ IngestIdle
  /\ RetrieveIdle
  /\ CrawlIdle
  /\ ChatIdle
  /\ RaceIdle
  /\ StoreCallIdle
  /\ ApiIdle

\* while (iterationCount < maxToolCalls) { iterationCount++;
\*   response = await callOpenAI(...); accumulate usage;
\*   no tool calls -> return; else push the assistant message }
ModelResponds ==
  /\ lpc = "awaiting_model"
  /\ LoopCondition(iterationCount)
  /\ \E n \in 0..Min(MaxCallsPerResponse, MaxToolCallsPerRun - toolsRequested) :
     \E calls \in ToolCallLists(iterationCount + 1, n) :
       LET usage == ProviderUsage(currentMessages, calls)
           resp == [content |-> IF n = 0 THEN "answer" ELSE "",
                    toolCalls |-> calls, usage |-> usage]
           total == AccumulateUsage(totalUsage, usage)
       IN /\ iterationCount' = iterationCount + 1
          /\ modelCalls' = modelCalls + 1
          /\ toolsRequested' = toolsRequested + n
          /\ totalUsage' = total
          /\ response' = resp
          /\ usageLog' = Append(usageLog, usage)
          /\ IF n = 0
               THEN /\ lpc' = "done"
                    /\ loopResult' = [kind |-> "response", content |-> resp.content,
                                      usage |-> total]
                    /\ UNCHANGED <<currentMessages, toolIdx>>
               ELSE /\ lpc' = "executing_tools"
                    /\ currentMessages' = push(currentMessages, AssistantMessage(resp))
                    /\ toolIdx' = 1
                    /\ UNCHANGED loopResult
  /\ UNCHANGED <<messages, tavilyApiKey, loopError, toolLog>>

\* callOpenAI throws (its attempts are used up): the error leaves the loop
ModelCallFails ==
  /\ lpc = "awaiting_model"
  /\ LoopCondition(iterationCount)
  /\ iterationCount' = iterationCount + 1
  /\ modelCalls' = modelCalls + 1
  /\ lpc' = "failed"
  /\ loopError' = "Failed to call OpenAI"
  /\ UNCHANGED <<messages, currentMessages, totalUsage, response, toolIdx,
                 toolsRequested, tavilyApiKey, loopResult, toolLog, usageLog>>

\* one turn of: for (const toolCall of response.toolCalls) { try {...} catch {...} }
ExecuteTool ==
  /\ lpc = "executing_tools"
  /\ toolIdx <= Len(response.toolCalls)
  /\ LET toolCall == response.toolCalls[toolIdx] IN
     \E outcome \in SearchOutcomes :
       \* the search request is made only when the call gets that far
       /\ (outcome = "ok" \/ (toolCall.name = "tavily_search"
                               /\ JSONparse(toolCall.arguments).ok /\ tavilyApiKey))
       /\ LET r == ToolOutcome(toolCall, tavilyApiKey, outcome)
              c == CatchToolError(r)
          IN \* the for-of loop goes on only when the awaited call settles
             /\ Resolves(r)
             /\ toolLog' = Append(toolLog, [id |-> toolCall.id, ok |-> r.ok,
                                            value |-> r.value])
             /\ IF r.ok \/ c.caught
                  THEN /\ currentMessages' = push(currentMessages,
                            ToolMessage(toolCall,
                                        IF r.ok THEN TextContent(r.value) ELSE c.content))
                       /\ toolIdx' = toolIdx + 1
                       /\ lpc' = IF toolIdx = Len(response.toolCalls)
                                   THEN "awaiting_model" ELSE lpc
                       /\ UNCHANGED loopError
                  ELSE /\ lpc' = "failed"
                       /\ loopError' = r.value
                       /\ UNCHANGED <<currentMessages, toolIdx>>
  /\ UNCHANGED <<messages, iterationCount, totalUsage, response, modelCalls,
                 toolsRequested, tavilyApiKey, loopResult, usageLog>>

\* the while condition is false: throw "Maximum tool call iterations exceeded"
BudgetExceeded ==
  /\ lpc = "awaiting_model"
  /\ ~LoopCondition(iterationCount)
  /\ lpc' = "exhausted"
  /\ loopError' = "Maximum tool call iterations exceeded"
  /\ UNCHANGED <<messages, currentMessages, iterationCount, totalUsage, response,
                 toolIdx, modelCalls, toolsRequested, tavilyApiKey, loopResult,
                 toolLog, usageLog>>

LoopNext ==
  \/ ModelResponds /\ UNCHANGED <<evars, rvars, ivars, qvars, cvars, hvars, xvars, svars, avars>>
  \/ ModelCallFails /\ UNCHANGED <<evars, rvars, ivars, qvars, cvars, hvars, xvars, svars, avars>>
  \/ ExecuteTool /\ UNCHANGED <<evars, rvars, ivars, qvars, cvars, hvars, xvars, svars, avars>>
  \/ BudgetExceeded /\ UNCHANGED <<evars, rvars, ivars, qvars, cvars, hvars, xvars, svars, avars>>

LoopSpec == LoopInit /\ [][LoopNext]_vars

(***************************************************************************)
(* Embedding batch pipeline                                                *)
(***************************************************************************)
DEFAULT_BATCH_SIZE == 100
DEFAULT_MAX_RETRIES == 3

\* the caller (data-aggregate) passes only apiKey, so maxRetries is the default
maxRetries == DEFAULT_MAX_RETRIES

EmbedStates == {"idle", "enter", "sub_batch", "attempt", "done", "failed"}

\* a string is the sequence of its characters
Chars == {"a", "b", " "}
TextAlphabet == { <<>>, <<" ">>, <<"a">>, <<"b">> }

IsWhitespace(c) == c = " "

\* String.prototype.trim
RECURSIVE trimStart(_)
trimStart(text) ==
  IF Len(text) = 0 THEN text
  ELSE IF IsWhitespace(Head(text)) THEN trimStart(Tail(text)) ELSE text

RECURSIVE trimEnd(_)
trimEnd(text) ==
  IF Len(text) = 0 THEN text
  ELSE IF IsWhitespace(text[Len(text)]) THEN trimEnd(SubSeq(text, 1, Len(text) - 1))
       ELSE text

trim(text) == trimEnd(trimStart(text))

\* text => text && text.trim().length > 0
IsValidText(text) == Len(text) > 0 /\ Len(trim(text)) > 0

\* the vector the provider computes for a text
Embedding(text) == [of |-> text]

\* a slice that always starts at the first element
Slice_fromStart(seq, i, j) == SubSeq(seq, 1, Min(j - i, Len(seq)))

\* texts.slice(i, i + batchSize), i counted from 0
Slice(seq, i, j) == SubSeq(seq, i + 1, Min(j, Len(seq)))

\* the provider's answer to one request: an item per input, each with the
\* index of its input, listed in the order p
ProviderData(input, p) ==
  [k \in 1..Len(input) |-> [index |-> p[k] - 1, embedding |-> Embedding(input[p[k]])]]

\* Array.prototype.sort((a, b) => a.index - b.index): insertion into a
\* sorted prefix
RECURSIVE InsertByIndex(_, _)
InsertByIndex(sorted, item) ==
  IF Len(sorted) = 0 THEN <<item>>
  ELSE IF item.index < Head(sorted).index THEN <<item>> \o sorted
       ELSE <<Head(sorted)>> \o InsertByIndex(Tail(sorted), item)

RECURSIVE SortItems(_)
SortItems(items) ==
  IF Len(items) = 0 THEN <<>>
  ELSE InsertByIndex(SortItems(SubSeq(items, 1, Len(items) - 1)), items[Len(items)])

\* the items taken in the order the provider sent them
sortedEmbeddings_unsorted(data) == [k \in 1..Len(data) |-> data[k].embedding]

\* data.data.sort((a, b) => a.index - b.index).map(item => item.embedding)
sortedEmbeddings(data) ==
  LET sorted == SortItems(data) IN [k \in 1..Len(sorted) |-> sorted[k].embedding]

\* retry-after header of a 429 answer; NoHeader when the header is absent
NoHeader == 0 - 1
RetryAfterHeaders == {NoHeader, 1}

\* parseInt(response.headers.get('retry-after') || '5', 10)
retryAfter(header) == IF header = NoHeader THEN 5 ELSE header

RECURSIVE Pow2(_)
Pow2(n) == IF n = 0 THEN 1 ELSE 2 * Pow2(n - 1)

\* Math.min(1000 * Math.pow(2, attempt), 10000)
backoffMs(n) == Min(1000 * Pow2(n), 10000)

\* a retry loop that gives up after the first attempt
RetryCondition_once(n) == n < 1

\* for (let attempt = 0; attempt < maxRetries; attempt++)
RetryCondition(n) == n < maxRetries

\* a batch loop that hands back what it has when a sub-batch fails
BatchFailure_partial(partial) == [kind |-> "embeddings", embeddings |-> partial]

\* catch (error) { console.error(...); throw error }: nothing is returned
BatchFailure(partial) == NoResult

\* a batch loop that goes straight on to the next sub-batch
InterBatchSleep_none(more) == IF more THEN 0 ELSE 0

\* if (i + batchSize < texts.length) { await sleep(100) }
InterBatchSleep(more) == IF more THEN 100 ELSE 0

EmbedInputs ==
  UNION { [1..n -> TextAlphabet] : n \in 0..MaxTexts }

EmbedInit ==
  /\ epc = "enter"
  /\ texts \in EmbedInputs
  /\ batchSize \in 1..MaxBatchSize
  /\ direct = FALSE
  /\ batchStart = 0
  /\ validTexts = <<>>
  /\ attempt = 0
  /\ allEmbeddings = <<>>
  /\ embedResult = NoResult
  /\ embedError = "none"
  /\ attemptLog = <<>>
  /\ providerOrder = <<>>
  /\ batchesDone = 0
  /\ remoteCalls = 0
  /\ LoopIdle
  /\ RagIdle
  /\ IngestIdle
  /\ RetrieveIdle
  /\ CrawlIdle
  /\ ChatIdle
  /\ RaceIdle
  /\ StoreCallIdle
  /\ ApiIdle

\* generateEmbeddingsBatch, up to the first call of generateEmbeddings
BatchEnter ==
  /\ epc = "enter"
  /\ IF Len(texts) = 0
       THEN /\ epc' = "failed"
            /\ embedError' = "No texts provided for batch embedding"
            /\ UNCHANGED direct
       ELSE /\ epc' = "sub_batch"
            /\ direct' = (Len(texts) <= batchSize)
            /\ UNCHANGED embedError
  /\ UNCHANGED <<texts, batchSize, batchStart, validTexts, attempt, allEmbeddings,
                 embedResult, attemptLog, providerOrder, batchesDone, remoteCalls>>

\* the argument of the generateEmbeddings call at this position
CurrentBatch ==
  IF direct THEN texts ELSE Slice(texts, batchStart, batchStart + batchSize)

\* generateEmbeddings, up to the retry loop: validation and filtering
SubBatchEnter ==
  /\ epc = "sub_batch"
  /\ LET batch == CurrentBatch
         valid == SelectSeq(batch, IsValidText)
     IN IF Len(batch) = 0
          THEN /\ epc' = "failed"
               /\ embedError' = "No texts provided for embedding"
               /\ embedResult' = IF direct THEN NoResult ELSE BatchFailure(allEmbeddings)
               /\ UNCHANGED validTexts
          ELSE IF Len(valid) = 0
            THEN /\ epc' = "failed"
                 /\ embedError' = "No valid texts after filtering empty strings"
                 /\ embedResult' = IF direct THEN NoResult ELSE BatchFailure(allEmbeddings)
                 /\ UNCHANGED validTexts
            ELSE /\ epc' = "attempt"
                 /\ validTexts' = valid
                 /\ UNCHANGED <<embedError, embedResult>>
  /\ attempt' = 0
  /\ attemptLog' = <<>>
  /\ UNCHANGED <<texts, batchSize, direct, batchStart, allEmbeddings, providerOrder,
                 batchesDone, remoteCalls>>

\* one attempt whose request is answered with the embeddings
AttemptSucceeds ==
  /\ epc = "attempt"
  /\ RetryCondition(attempt)
  /\ \E p \in Perms(Len(validTexts)) :
       LET result == sortedEmbeddings(ProviderData(validTexts, p)) IN
         /\ providerOrder' = Append(providerOrder, p)
         /\ attemptLog' = Append(attemptLog,
              [outcome |-> "ok",
               slept |-> InterBatchSleep(~direct /\ batchStart + batchSize < Len(texts))])
         /\ batchesDone' = batchesDone + 1
         /\ IF direct
              THEN /\ epc' = "done"
                   /\ embedResult' = [kind |-> "embeddings", embeddings |-> result]
                   /\ UNCHANGED <<allEmbeddings, batchStart>>
              ELSE /\ allEmbeddings' = allEmbeddings \o result
                   /\ batchStart' = batchStart + batchSize
                   /\ IF batchStart + batchSize < Len(texts)
                        THEN /\ epc' = "sub_batch"
                             /\ UNCHANGED embedResult
                        ELSE /\ epc' = "done"
                             /\ embedResult' = [kind |-> "embeddings",
                                                embeddings |-> allEmbeddings \o result]
  /\ remoteCalls' = remoteCalls + 1
  /\ UNCHANGED <<texts, batchSize, direct, validTexts, attempt, embedError>>

\* one attempt answered with status 429: sleep for retry-after, continue
AttemptRateLimited ==
  /\ epc = "attempt"
  /\ RetryCondition(attempt)
  /\ \E header \in RetryAfterHeaders :
       attemptLog' = Append(attemptLog,
          [outcome |-> "rate_limited", slept |-> retryAfter(header) * 1000])
  /\ attempt' = attempt + 1
  /\ remoteCalls' = remoteCalls + 1
  /\ UNCHANGED <<epc, texts, batchSize, direct, batchStart, validTexts, allEmbeddings,
                 embedResult, embedError, providerOrder, batchesDone>>

\* one attempt that throws (network error or another error status): the
\* catch records the error and backs off unless this was the last attempt
AttemptFails ==
  /\ epc = "attempt"
  /\ RetryCondition(attempt)
  /\ attemptLog' = Append(attemptLog,
        [outcome |-> "error",
         slept |-> IF attempt < maxRetries - 1 THEN backoffMs(attempt) ELSE 0])
  /\ attempt' = attempt + 1
  /\ remoteCalls' = remoteCalls + 1
  /\ UNCHANGED <<epc, texts, batchSize, direct, batchStart, validTexts, allEmbeddings,
                 embedResult, embedError, providerOrder, batchesDone>>

\* the retry loop has ended without a return: throw
RetriesExhausted ==
  /\ epc = "attempt"
  /\ ~RetryCondition(attempt)
  /\ epc' = "failed"
  /\ embedError' = "Failed to generate embeddings"
  /\ embedResult' = IF direct THEN NoResult ELSE BatchFailure(allEmbeddings)
  /\ UNCHANGED <<texts, batchSize, direct, batchStart, validTexts, attempt,
                 allEmbeddings, attemptLog, providerOrder, batchesDone, remoteCalls>>

EmbedNext ==
  \/ BatchEnter /\ UNCHANGED <<lvars, rvars, ivars, qvars, cvars, hvars, xvars, svars, avars>>
  \/ SubBatchEnter /\ UNCHANGED <<lvars, rvars, ivars, qvars, cvars, hvars, xvars, svars, avars>>
  \/ AttemptSucceeds /\ UNCHANGED <<lvars, rvars, ivars, qvars, cvars, hvars, xvars, svars, avars>>
  \/ AttemptRateLimited /\ UNCHANGED <<lvars, rvars, ivars, qvars, cvars, hvars, xvars, svars, avars>>
  \/ AttemptFails /\ UNCHANGED <<lvars, rvars, ivars, qvars, cvars, hvars, xvars, svars, avars>>
  \/ RetriesExhausted /\ UNCHANGED <<lvars, rvars, ivars, qvars, cvars, hvars, xvars, svars, avars>>

EmbedSpec == EmbedInit /\ [][EmbedNext]_vars

(***************************************************************************)
(* Retrieval and sufficiency policy                                        *)
(***************************************************************************)
\* RAG_CONFIG; similarities are counted in hundredths
minChunksForContext == 1
maxContextLength == 4000
fallbackThreshold == 50

\* prepareContext: the least remaining space that still takes a cut-down
\* source, and the length of the marker '...'
MinSnippetSpace == 200
EllipsisLength == 3

\* a chunk text is known by its length and by whether it ends in the
\* truncation marker
Text(length, marked) == [length |-> length, marked |-> marked]

\* a cut that leaves the truncation marker out
CutText_noMarker(text, n) ==
  Text(Min(text.length, IF n < 0 THEN 0 ELSE n), FALSE)

\* source.chunkText.substring(0, n) + '...'
CutText(text, n) ==
  Text(Min(text.length, IF n < 0 THEN 0 ELSE n) + EllipsisLength, TRUE)

TextLengths == {100, 250, 3900}
Similarities == {30, 50, 90}
MaxLengths == {300, maxContextLength}

RagSources ==
  [chunkId : {1}, chunkText : {Text(n, FALSE) : n \in TextLengths},
   similarity : Similarities]

\* retrieveContext sorts its result by similarity, highest first
SortedDescending(seq) ==
  \A i \in 1..(Len(seq) - 1) : seq[i].similarity >= seq[i + 1].similarity

RagInputs ==
  { seq \in UNION { [1..n -> RagSources] : n \in 0..MaxSources } :
      SortedDescending(seq) }

RECURSIVE TotalLength(_)
TotalLength(seq) ==
  IF Len(seq) = 0 THEN 0 ELSE Head(seq).chunkText.length + TotalLength(Tail(seq))

\* the for loop of prepareContext from source k on, with the sources
\* selected so far and their total length
RECURSIVE SelectSources(_, _, _, _, _)
SelectSources(all, k, selected, totalLength, limit) ==
  IF k > Len(all) THEN selected
  ELSE LET source == all[k]
           sourceLength == source.chunkText.length
       IN IF totalLength + sourceLength <= limit
            THEN SelectSources(all, k + 1, Append(selected, source),
                               totalLength + sourceLength, limit)
            ELSE LET remainingSpace == limit - totalLength IN
                   IF remainingSpace > MinSnippetSpace
                     THEN Append(selected,
                            [source EXCEPT !.chunkText =
                               CutText(source.chunkText, remainingSpace - EllipsisLength)])
                     ELSE selected

\* prepareContext(sources, maxLength)
prepareContext(all, limit) ==
  IF Len(all) = 0 THEN [sources |-> <<>>, truncated |-> FALSE]
  ELSE LET selectedSources == SelectSources(all, 1, <<>>, 0, limit) IN
         [sources |-> selectedSources,
          truncated |-> Len(selectedSources) < Len(all)]

\* Math.max(...sources.map(s => s.similarity)); -Infinity for no argument
NegInfinity == 0 - 1000
RECURSIVE MathMax(_)
MathMax(seq) ==
  IF Len(seq) = 0 THEN NegInfinity
  ELSE LET rest == MathMax(Tail(seq)) IN
         IF Head(seq).similarity >= rest THEN Head(seq).similarity ELSE rest

\* a policy that demands every match to clear the threshold
isContextSufficient_everyMatch(all) ==
  /\ Len(all) >= minChunksForContext
  /\ \A k \in 1..Len(all) : all[k].similarity >= fallbackThreshold

\* isContextSufficient(sources)
isContextSufficient(all) ==
  IF Len(all) = 0 THEN FALSE
  ELSE IF Len(all) < minChunksForContext THEN FALSE
  ELSE IF MathMax(all) < fallbackThreshold THEN FALSE
  ELSE TRUE

RagInit ==
  /\ rpc = "input"
  /\ sources \in RagInputs
  /\ maxLength \in MaxLengths
  /\ prepared = [sources |-> <<>>, truncated |-> FALSE]
  /\ sufficient = FALSE
  /\ LoopIdle
  /\ EmbedIdle
  /\ IngestIdle
  /\ RetrieveIdle
  /\ CrawlIdle
  /\ ChatIdle
  /\ RaceIdle
  /\ StoreCallIdle
  /\ ApiIdle

\* a call of prepareContext(sources, maxLength)
PrepareContextCall ==
  /\ rpc = "input"
  /\ rpc' = "prepareContext"
  /\ prepared' = prepareContext(sources, maxLength)
  /\ UNCHANGED <<sources, maxLength, sufficient>>

\* a call of isContextSufficient(sources)
IsContextSufficientCall ==
  /\ rpc = "input"
  /\ rpc' = "isContextSufficient"
  /\ sufficient' = isContextSufficient(sources)
  /\ UNCHANGED <<sources, maxLength, prepared>>

RagNext ==
  \/ PrepareContextCall /\ UNCHANGED <<lvars, evars, ivars, qvars, cvars, hvars, xvars, svars, avars>>
  \/ IsContextSufficientCall /\ UNCHANGED <<lvars, evars, ivars, qvars, cvars, hvars, xvars, svars, avars>>

RagSpec == RagInit /\ [][RagNext]_vars

(***************************************************************************)
(* Retrieval: retrieveContext and the match_documents function             *)
(***************************************************************************)
\* RAG_CONFIG, in hundredths where it is a similarity
defaultThreshold == 70
defaultMatchCount == 5
maxMatchCount == 10

RetrieveStates == {"idle", "call", "returned", "failed"}

\* repositories (owner, repo, ref) with embedded chunks; the first is the
\* one the chat asks about
RepoScopes == {"owner/repo@main", "other/repo@main"}

\* the kinds of stored row: repository and similarity to the query
\* embedding, listed in storage order
RowKinds ==
  << [repository |-> "owner/repo@main", similarity |-> 50],
     [repository |-> "owner/repo@main", similarity |-> 70],
     [repository |-> "owner/repo@main", similarity |-> 71],
     [repository |-> "other/repo@main", similarity |-> 95],
     [repository |-> "owner/repo@main", similarity |-> 90],
     [repository |-> "owner/repo@main", similarity |-> 40] >>

RowCounts == {0, 1, MaxRowsPerScore}

\* count[k] rows of each kind k, one after the other
RECURSIVE RowsOfKinds(_, _)
RowsOfKinds(count, k) ==
  IF k > Len(RowKinds) THEN <<>>
  ELSE [i \in 1..count[k] |-> RowKinds[k]] \o RowsOfKinds(count, k + 1)

\* the join embeddings / document_chunks / repositories: one row per
\* embedded chunk, with the chunk's id
IndexedRows(count) ==
  LET kinds == RowsOfKinds(count, 1) IN
    [i \in 1..Len(kinds) |->
       [chunk_id |-> i, repository |-> kinds[i].repository,
        similarity |-> kinds[i].similarity]]

RetrieveConfigs ==
  [matchThreshold : {Undefined, 50, 30}, matchCount : {Undefined, 0, 2, 12}]

\* a filter that lets a similarity equal to the threshold through
AboveThreshold_inclusive(similarity, threshold) == similarity >= threshold

\* 1 - (e.embedding <=> query_embedding) > match_threshold
AboveThreshold(similarity, threshold) == similarity > threshold

\* ordering by descending similarity: insertion behind the items that are
\* not smaller (a stable sort)
RECURSIVE InsertBySimilarity(_, _)
InsertBySimilarity(sorted, item) ==
  IF Len(sorted) = 0 THEN <<item>>
  ELSE IF item.similarity > Head(sorted).similarity THEN <<item>> \o sorted
       ELSE <<Head(sorted)>> \o InsertBySimilarity(Tail(sorted), item)

RECURSIVE SortBySimilarity(_)
SortBySimilarity(items) ==
  IF Len(items) = 0 THEN <<>>
  ELSE InsertBySimilarity(SortBySimilarity(SubSeq(items, 1, Len(items) - 1)),
                          items[Len(items)])

\* match_documents(query_embedding, repo_owner, repo_name, repo_ref,
\* match_threshold, match_count): WHERE ... ORDER BY distance LIMIT match_count
match_documents(rows, scope, match_threshold, match_count) ==
  LET Matches(r) == /\ r.repository = scope
                    /\ AboveThreshold(r.similarity, match_threshold)
      ordered == SortBySimilarity(SelectSeq(rows, Matches))
  IN SubSeq(ordered, 1, Min(match_count, Len(ordered)))

\* config?.matchThreshold ?? RAG_CONFIG.defaultThreshold
matchThresholdOf(config) ==
  IF config.matchThreshold = Undefined THEN defaultThreshold ELSE config.matchThreshold

\* Math.min(config?.matchCount ?? RAG_CONFIG.defaultMatchCount, RAG_CONFIG.maxMatchCount)
matchCountOf(config) ==
  Min(IF config.matchCount = Undefined THEN defaultMatchCount ELSE config.matchCount,
      maxMatchCount)

\* retrieveContext: the rows of match_documents as RAGSource records,
\* sorted by similarity, highest first
retrieveContext(rows, scope, config) ==
  LET data == match_documents(rows, scope, matchThresholdOf(config), matchCountOf(config))
      mapped == [k \in 1..Len(data) |->
                   [chunkId |-> data[k].chunk_id, similarity |-> data[k].similarity]]
  IN SortBySimilarity(mapped)

\* chunk_text of the stored chunk: its length goes by the chunk's id, and
\* some chunks are longer than the whole context
ChunkTextOf(id) ==
  Text(IF id % 3 = 1 THEN 5000 ELSE IF id % 3 = 2 THEN 100 ELSE 3900, FALSE)

\* chunkText: row.chunk_text
WithChunkText(list) ==
  [k \in 1..Len(list) |->
     [chunkId |-> list[k].chunkId, chunkText |-> ChunkTextOf(list[k].chunkId),
      similarity |-> list[k].similarity]]

\* a performRAG that takes a truncated context for an insufficient one
performRAG_truncatedFallsBack(allSources) ==
  LET context == prepareContext(allSources, maxContextLength) IN
    [sources |-> context.sources,
     useFallback |-> ~isContextSufficient(context.sources) \/ context.truncated]

\* performRAG, from the result of retrieveContext on
performRAG(allSources) ==
  LET context == prepareContext(allSources, maxContextLength) IN
    [sources |-> context.sources,
     useFallback |-> ~isContextSufficient(context.sources)]

RetrieveInit ==
  /\ qpc = "call"
  /\ \E count \in [1..Len(RowKinds) -> RowCounts] : indexed = IndexedRows(count)
  /\ repoScope = "owner/repo@main"
  /\ ragConfig \in RetrieveConfigs
  /\ ragSources = <<>>
  /\ ragError = "none"
  /\ ragReport = NoResult
  /\ LoopIdle
  /\ EmbedIdle
  /\ RagIdle
  /\ IngestIdle
  /\ CrawlIdle
  /\ ChatIdle
  /\ RaceIdle
  /\ StoreCallIdle
  /\ ApiIdle

\* a call of retrieveContext whose rpc succeeds
RetrieveContextCall ==
  /\ qpc = "call"
  /\ qpc' = "returned"
  /\ ragSources' = retrieveContext(indexed, repoScope, ragConfig)
  /\ UNCHANGED <<indexed, repoScope, ragConfig, ragError, ragReport>>

\* a call of retrieveContext whose rpc reports an error: throw
RetrieveContextFails ==
  /\ qpc = "call"
  /\ qpc' = "failed"
  /\ ragError' = "RAG search failed"
  /\ UNCHANGED <<indexed, repoScope, ragConfig, ragSources, ragReport>>

\* the rest of performRAG after a retrieveContext that returned
PerformRAGReturns ==
  /\ qpc = "returned"
  /\ qpc' = "performed"
  /\ ragReport' = performRAG(WithChunkText(ragSources))
  /\ UNCHANGED <<indexed, repoScope, ragConfig, ragSources, ragError>>

RetrieveNext ==
  \/ PerformRAGReturns /\ UNCHANGED <<lvars, evars, rvars, ivars, cvars, hvars, xvars, svars, avars>>
  \/ RetrieveContextCall /\ UNCHANGED <<lvars, evars, rvars, ivars, cvars, hvars, xvars, svars, avars>>
  \/ RetrieveContextFails /\ UNCHANGED <<lvars, evars, rvars, ivars, cvars, hvars, xvars, svars, avars>>

RetrieveSpec == RetrieveInit /\ [][RetrieveNext]_vars

(***************************************************************************)
(* Properties of retrieval                                                 *)
(***************************************************************************)
\* the stored row a returned source was made from
RowOf(source) == CHOOSE r \in Range(indexed) : r.chunk_id = source.chunkId

\* the stored rows of the requested repository above the threshold
MatchingRows ==
  {r \in Range(indexed) : /\ r.repository = repoScope
                          /\ r.similarity > matchThresholdOf(ragConfig)}

\* C20: retrieveContext returns only chunks of the requested repository
\* whose similarity is strictly greater than matchThreshold, at most
\* matchCount of them (matchCount at most maxMatchCount = 10), ordered by
\* descending similarity.
C20_FilteredCappedOrdered ==
  (qpc = "returned") =>
    /\ \A k \in 1..Len(ragSources) :
         /\ \E r \in Range(indexed) : r.chunk_id = ragSources[k].chunkId
         /\ RowOf(ragSources[k]).repository = repoScope
         /\ RowOf(ragSources[k]).similarity = ragSources[k].similarity
         /\ ragSources[k].similarity > matchThresholdOf(ragConfig)
    /\ \A j, k \in 1..Len(ragSources) :
         ragSources[j].chunkId = ragSources[k].chunkId => j = k
    /\ (ragConfig.matchCount # Undefined) => Len(ragSources) <= ragConfig.matchCount
    /\ (ragConfig.matchCount = Undefined) => Len(ragSources) <= defaultMatchCount
    /\ Len(ragSources) <= maxMatchCount
    /\ Len(ragSources) <= 10
    /\ \A k \in 1..(Len(ragSources) - 1) :
         ragSources[k].similarity >= ragSources[k + 1].similarity

\* twelve matches were asked for and more than ten rows match: ten are
\* returned, of two similarities; rows of another repository and rows at
\* the threshold exactly are stored and left out
C20_Witness ==
  /\ qpc = "returned"
  /\ ragConfig.matchCount = 12
  /\ Cardinality(MatchingRows) > maxMatchCount
  /\ Len(ragSources) = 10
  /\ ragSources[1].similarity > ragSources[10].similarity
  /\ \E r \in Range(indexed) : r.repository # repoScope
  /\ \E r \in Range(indexed) :
       r.repository = repoScope /\ r.similarity = matchThresholdOf(ragConfig)

(***************************************************************************)
(* Documentation crawl: crawlInBatches and crawlUrl                        *)
(***************************************************************************)
CrawlStates == {"idle", "loop", "awaiting", "returned", "failed"}

\* batchSize: number = 4
DEFAULT_CRAWL_BATCH_SIZE == 4

\* a field that is not set
NoField == "undefined"

\* links: DocumentationLink[]; the links of a list are told apart by their url
Link(k) == [url |-> <<"doc", k>>, anchorText |-> <<"anchor", k>>]

LinkLists == { [k \in 1..n |-> Link(k)] : n \in 0..MaxLinks }

\* how the request of one crawlUrl call ends: a page, a status that is not
\* ok, a body with success = false, a rejected fetch
CrawlOutcomes == {"ok", "bad_status", "failure_flag", "network_error"}

CrawlResult(link, markdown, success, error) ==
  [url |-> link.url, anchorText |-> link.anchorText, markdown |-> markdown,
   success |-> success, error |-> error]

NoCrawlResult ==
  [url |-> NoField, anchorText |-> NoField, markdown |-> NoField,
   success |-> FALSE, error |-> NoField]

\* the promise of a crawlUrl call
NotStarted == [state |-> "not_started", outcome |-> "none", value |-> NoCrawlResult]
InFlight == [state |-> "in_flight", outcome |-> "none", value |-> NoCrawlResult]

\* a crawlUrl whose fetch is outside the try block
crawlUrl_uncaught(link, outcome) ==
  IF outcome = "network_error"
    THEN [rejected |-> TRUE, value |-> NoCrawlResult]
    ELSE [rejected |-> FALSE,
          value |-> IF outcome = "ok"
                      THEN CrawlResult(link, "markdown", TRUE, NoField)
                      ELSE CrawlResult(link, NoField, FALSE, outcome)]

\* crawlUrl(url, anchorText, crawl4aiBaseUrl): the promise it returns
\* always fulfils
crawlUrl(link, outcome) ==
  [rejected |-> FALSE,
   value |->
     CASE outcome = "ok" -> CrawlResult(link, "markdown", TRUE, NoField)
       [] outcome = "bad_status" ->
            CrawlResult(link, NoField, FALSE, "Crawl4AI returned status 500")
       [] outcome = "failure_flag" ->
            CrawlResult(link, NoField, FALSE, "Crawl4AI indicated failure in response")
       [] outcome = "network_error" ->
            CrawlResult(link, NoField, FALSE, "fetch failed")]

\* the positions of links.slice(i, i + batchSize), i counted from 0
BatchPositions(i) == (i + 1)..Min(i + crawlBatchSize, Len(links))

\* a combinator that settles with the first promise that does
PromiseAll_firstSettled(promises, positions) ==
  IF \E k \in positions : promises[k].state = "rejected" THEN "rejected"
  ELSE IF \E k \in positions : promises[k].state = "fulfilled" THEN "fulfilled"
  ELSE "pending"

\* Promise.all: rejected once a promise is, fulfilled when all of them are
PromiseAll(promises, positions) ==
  IF \E k \in positions : promises[k].state = "rejected" THEN "rejected"
  ELSE IF \A k \in positions : promises[k].state = "fulfilled" THEN "fulfilled"
  ELSE "pending"

CrawlInit ==
  /\ cpc = "loop"
  /\ links \in LinkLists
  /\ crawlBatchSize \in 1..MaxCrawlBatchSize
  /\ crawlIndex = 0
  /\ requests = [k \in 1..Len(links) |-> NotStarted]
  /\ results = <<>>
  /\ crawlReturn = <<>>
  /\ crawlError = "none"
  /\ LoopIdle
  /\ EmbedIdle
  /\ RagIdle
  /\ IngestIdle
  /\ RetrieveIdle
  /\ ChatIdle
  /\ RaceIdle
  /\ StoreCallIdle
  /\ ApiIdle

\* batch.map(link => crawlUrl(...)): every call of the batch runs up to its
\* fetch, then crawlInBatches awaits Promise.all
StartBatch ==
  /\ cpc = "loop"
  /\ crawlIndex < Len(links)
  /\ requests' = [k \in 1..Len(links) |->
                    IF k \in BatchPositions(crawlIndex) THEN InFlight ELSE requests[k]]
  /\ cpc' = "awaiting"
  /\ UNCHANGED <<links, crawlBatchSize, crawlIndex, results, crawlReturn, crawlError>>

\* the fetch of one crawlUrl call ends and the call settles its promise
RequestSettles ==
  /\ \E k \in 1..Len(links) : \E outcome \in CrawlOutcomes :
       /\ requests[k].state = "in_flight"
       /\ LET r == crawlUrl(links[k], outcome) IN
            requests' = [requests EXCEPT ![k] =
               [state |-> IF r.rejected THEN "rejected" ELSE "fulfilled",
                outcome |-> outcome, value |-> r.value]]
  /\ UNCHANGED <<cpc, links, crawlBatchSize, crawlIndex, results, crawlReturn,
                 crawlError>>

\* await Promise.all(...) ends: results.push(...batchResults); i += batchSize
JoinBatch ==
  /\ cpc = "awaiting"
  /\ LET positions == BatchPositions(crawlIndex)
         settled == PromiseAll(requests, positions)
     IN /\ settled # "pending"
        /\ IF settled = "fulfilled"
             THEN /\ results' = results \o
                       [j \in 1..Cardinality(positions) |-> requests[crawlIndex + j].value]
                  /\ crawlIndex' = crawlIndex + crawlBatchSize
                  /\ cpc' = "loop"
                  /\ UNCHANGED crawlError
             ELSE /\ cpc' = "failed"
                  /\ crawlError' = "rejected"
                  /\ UNCHANGED <<results, crawlIndex>>
  /\ UNCHANGED <<links, crawlBatchSize, requests, crawlReturn>>

\* the for condition is false: return results
CrawlReturns ==
  /\ cpc = "loop"
  /\ crawlIndex >= Len(links)
  /\ cpc' = "returned"
  /\ crawlReturn' = results
  /\ UNCHANGED <<links, crawlBatchSize, crawlIndex, requests, results, crawlError>>

CrawlNext ==
  \/ StartBatch /\ UNCHANGED <<lvars, evars, rvars, ivars, qvars, hvars, xvars, svars, avars>>
  \/ RequestSettles /\ UNCHANGED <<lvars, evars, rvars, ivars, qvars, hvars, xvars, svars, avars>>
  \/ JoinBatch /\ UNCHANGED <<lvars, evars, rvars, ivars, qvars, hvars, xvars, svars, avars>>
  \/ CrawlReturns /\ UNCHANGED <<lvars, evars, rvars, ivars, qvars, hvars, xvars, svars, avars>>

CrawlSpec == CrawlInit /\ [][CrawlNext]_vars

(***************************************************************************)
(* Chat request handlers: handleInit and handleMessage                     *)
(***************************************************************************)
ChatStates == {"idle", "ready", "init_process", "init_session", "msg_rag",
               "msg_complete"}

RepositoryStates == {"absent", "unprocessed", "processed"}

\* the ways a processRepository call ends: data-aggregate answers 200 with
\* success, answers 409, or the call throws
ProcessOutcomes == {"created", "conflict", "error"}

\* the retrieval results of a message: no match or one match
ChatRetrievals == {seq \in RagInputs : Len(seq) <= 1}

ErrorResponse(error) == [success |-> FALSE, error |-> error, status |-> "none"]

\* chat/lib/storage.ts isRepositoryProcessed(client, repositoryId)
hasEmbeddingsOf(processed, queryFails) == IF queryFails THEN FALSE ELSE processed

\* const tools = []; if (MCP_CONFIG.enabled && tavilyApiKey) tools.push(...)
ChatTools(key, rag) ==
  IF MCP_enabled /\ key THEN <<"tavily_search">> ELSE <<>>

\* if (!repository) { ... processRepository ... }
NeedsProcessing(found, force) == ~found

ChatInit ==
  /\ hpc = "ready"
  /\ chatRepository \in RepositoryStates
  /\ chatSessions = 0
  /\ chatHistory = <<>>
  /\ envTavilyKey \in BOOLEAN
  /\ chatRequests = 0
  /\ hForce = FALSE
  /\ hFound = FALSE
  /\ hStatus = "existing"
  /\ hProcessCalls = <<>>
  /\ ragResult = [sources |-> <<>>, useFallback |-> FALSE]
  /\ completion = NoCompletion
  /\ chatResponse = NoChatResponse
  /\ LoopIdle
  /\ EmbedIdle
  /\ RagIdle
  /\ IngestIdle
  /\ RetrieveIdle
  /\ CrawlIdle
  /\ RaceIdle
  /\ StoreCallIdle
  /\ ApiIdle

\* handleInit up to processRepository or createChatSession
HandleInit ==
  /\ hpc = "ready"
  /\ chatRequests < MaxChatRequests
  /\ chatRequests' = chatRequests + 1
  /\ hProcessCalls' = <<>>
  /\ completion' = NoCompletion
  /\ \E validUrl \in BOOLEAN, force \in BOOLEAN, queryFails \in BOOLEAN :
       LET found == chatRepository # "absent" IN
         /\ hForce' = force
         /\ IF ~validUrl
              THEN /\ hpc' = "ready"
                   /\ chatResponse' = ErrorResponse("invalid_github_url")
                   /\ UNCHANGED <<hFound, hStatus>>
              ELSE /\ hFound' = found
                   /\ hStatus' = "existing"
                   /\ IF NeedsProcessing(found, force)
                        THEN /\ hpc' = "init_process"
                             /\ UNCHANGED chatResponse
                        ELSE IF /\ ~hasEmbeddingsOf(chatRepository = "processed",
                                                    queryFails)
                                /\ ~force
                          THEN /\ hpc' = "ready"
                               /\ chatResponse' = ErrorResponse("repository_not_processed")
                          ELSE /\ hpc' = "init_session"
                               /\ UNCHANGED chatResponse
  /\ UNCHANGED <<chatRepository, chatSessions, chatHistory, envTavilyKey, ragResult>>

\* processRepository(githubUrl, detectedRef, force, ...) and what follows it
\* in handleInit
ProcessRepository ==
  /\ hpc = "init_process"
  /\ hProcessCalls' = Append(hProcessCalls, hForce)
  /\ \E outcome \in ProcessOutcomes :
       CASE outcome = "created" ->
              /\ chatRepository' = "processed"
              /\ hStatus' = "created"
              /\ hpc' = "init_session"
              /\ UNCHANGED chatResponse
         [] outcome = "conflict" ->
              \* 409: the repository was stored by another request meanwhile
              /\ chatRepository' = "processed"
              /\ IF hForce
                   THEN /\ hpc' = "ready"
                        /\ chatResponse' = ErrorResponse("internal_error")
                        /\ UNCHANGED hStatus
                   ELSE /\ hStatus' = "existing"
                        /\ hpc' = "init_session"
                        /\ UNCHANGED chatResponse
         [] outcome = "error" ->
              \* the run may have stored the repository row before it failed
              /\ chatRepository' \in {chatRepository, "unprocessed"}
              /\ hpc' = "ready"
              /\ chatResponse' = ErrorResponse("internal_error")
              /\ UNCHANGED hStatus
  /\ UNCHANGED <<chatSessions, chatHistory, envTavilyKey, chatRequests, hForce,
                 hFound, ragResult, completion>>

\* createChatSession and the response of handleInit
CreateSession ==
  /\ hpc = "init_session"
  /\ chatSessions' = chatSessions + 1
  /\ chatResponse' = [success |-> TRUE, error |-> "none", status |-> hStatus]
  /\ hpc' = "ready"
  /\ UNCHANGED <<chatRepository, chatHistory, envTavilyKey, chatRequests, hForce,
                 hFound, hStatus, hProcessCalls, ragResult, completion>>

\* handleMessage up to performRAG: the session lookup and the storing of
\* the user message
HandleMessage ==
  /\ hpc = "ready"
  /\ chatRequests < MaxChatRequests
  /\ chatRequests' = chatRequests + 1
  /\ hProcessCalls' = <<>>
  /\ completion' = NoCompletion
  /\ \E known \in BOOLEAN :
       /\ known => chatSessions > 0
       /\ IF ~known
            THEN /\ hpc' = "ready"
                 /\ chatResponse' = ErrorResponse("session_not_found")
                 /\ UNCHANGED chatHistory
            ELSE /\ hpc' = "msg_rag"
                 /\ chatHistory' = Append(chatHistory, "user")
                 /\ UNCHANGED chatResponse
  /\ UNCHANGED <<chatRepository, chatSessions, envTavilyKey, hForce, hFound, hStatus,
                 ragResult>>

\* performRAG returns, or throws (query embedding or retrieval failed)
PerformRAG ==
  /\ hpc = "msg_rag"
  /\ \/ /\ \E allSources \in ChatRetrievals : ragResult' = performRAG(allSources)
        /\ hpc' = "msg_complete"
        /\ UNCHANGED chatResponse
     \/ /\ hpc' = "ready"
        /\ chatResponse' = ErrorResponse("internal_error")
        /\ UNCHANGED ragResult
  /\ UNCHANGED <<chatRepository, chatSessions, chatHistory, envTavilyKey, chatRequests,
                 hForce, hFound, hStatus, hProcessCalls, completion>>

\* the rest of handleMessage: the tools, the system prompt, the call of
\* generateChatCompletionWithTools, the storing of the answer
CompleteMessage ==
  /\ hpc = "msg_complete"
  /\ completion' = [called |-> TRUE,
                    tools |-> ChatTools(envTavilyKey, ragResult),
                    context |-> IF ragResult.useFallback THEN <<>>
                                ELSE ragResult.sources,
                    grounded |-> ~ragResult.useFallback]
  /\ hpc' = "ready"
  /\ \/ /\ chatHistory' = Append(chatHistory, "assistant")
        /\ chatResponse' = [success |-> TRUE, error |-> "none",
                            status |-> IF ragResult.useFallback THEN "fallback"
                                       ELSE "rag"]
     \/ /\ chatResponse' = ErrorResponse("internal_error")
        /\ UNCHANGED chatHistory
  /\ UNCHANGED <<chatRepository, chatSessions, envTavilyKey, chatRequests, hForce,
                 hFound, hStatus, hProcessCalls, ragResult>>

ChatNext ==
  \/ HandleInit /\ UNCHANGED <<lvars, evars, rvars, ivars, qvars, cvars, xvars, svars, avars>>
  \/ ProcessRepository /\ UNCHANGED <<lvars, evars, rvars, ivars, qvars, cvars, xvars, svars, avars>>
  \/ CreateSession /\ UNCHANGED <<lvars, evars, rvars, ivars, qvars, cvars, xvars, svars, avars>>
  \/ HandleMessage /\ UNCHANGED <<lvars, evars, rvars, ivars, qvars, cvars, xvars, svars, avars>>
  \/ PerformRAG /\ UNCHANGED <<lvars, evars, rvars, ivars, qvars, cvars, xvars, svars, avars>>
  \/ CompleteMessage /\ UNCHANGED <<lvars, evars, rvars, ivars, qvars, cvars, xvars, svars, avars>>

ChatSpec == ChatInit /\ [][ChatNext]_vars

(***************************************************************************)
(* Properties of the embedding batch pipeline                              *)
(***************************************************************************)
EmbeddingsOf(seq) == [k \in 1..Len(seq) |-> Embedding(seq[k])]

IsNonEmpty(text) == Len(text) > 0

\* the number of sub-batches of the call
TotalBatches ==
  IF direct THEN 1 ELSE (Len(texts) + batchSize - 1) \div batchSize

Returned == epc = "done" /\ embedResult.kind = "embeddings"

\* C2 as stated: for N non-empty strings the call returns N vectors, the
\* i-th being the embedding of the i-th input.
C2_AlignedForNonEmpty ==
  (Returned /\ \A i \in 1..Len(texts) : IsNonEmpty(texts[i])) =>
    embedResult.embeddings = EmbeddingsOf(texts)

\* C2 (amended): for N strings that are non-empty after trimming, the call
\* returns N vectors and the i-th vector is the embedding of the i-th input,
\* over several sub-batches and whatever order the provider answers in.
C2_AlignedForNonBlank ==
  (Returned /\ \A i \in 1..Len(texts) : IsValidText(texts[i])) =>
    /\ Len(embedResult.embeddings) = Len(texts)
    /\ \A i \in 1..Len(texts) : embedResult.embeddings[i] = Embedding(texts[i])

\* more texts than one sub-batch holds, the first answer came out of order
C2_Witness ==
  /\ Returned
  /\ \A i \in 1..Len(texts) : IsValidText(texts[i])
  /\ Len(texts) > batchSize
  /\ batchSize > 1
  /\ batchesDone >= 2
  /\ providerOrder[1] = <<2, 1>>
  /\ texts[1] # texts[2]

\* C4: the batch call is all-or-nothing: a failed call returns no
\* embeddings, and a returned result holds the embeddings of every
\* sub-batch.
C4_AllOrNothing ==
  /\ (epc = "failed") => (embedResult = NoResult /\ embedError # "none")
  /\ (embedResult # NoResult) =>
       /\ epc = "done"
       /\ embedError = "none"
       /\ batchesDone = TotalBatches
       /\ embedResult.embeddings = EmbeddingsOf(SelectSeq(texts, IsValidText))

\* the first sub-batch was embedded, a later one failed, nothing is returned
C4_Witness ==
  /\ epc = "failed"
  /\ batchesDone >= 1
  /\ Len(allEmbeddings) >= 1
  /\ embedResult = NoResult

Outcomes(log) == {log[k].outcome : k \in 1..Len(log)}

\* C5: a sub-batch's request is attempted at most maxRetries times; the
\* provider error is raised only when all these attempts are used up and none
\* succeeded; an attempt that succeeds ends the retries with a result.
C5_ErrorOnlyAfterRetries ==
  /\ Len(attemptLog) <= maxRetries
  /\ (embedError = "Failed to generate embeddings") =>
       /\ Len(attemptLog) = maxRetries
       /\ attempt = maxRetries
       /\ "ok" \notin Outcomes(attemptLog)
  /\ ("ok" \in Outcomes(attemptLog)) =>
       /\ attemptLog[Len(attemptLog)].outcome = "ok"
       /\ embedError # "Failed to generate embeddings"
       /\ epc \in {"done", "sub_batch", "attempt", "failed"}
       /\ (epc = "failed" => embedError = "No valid texts after filtering empty strings")

\* a transient failure, then a success on the last permitted attempt: the
\* call returns
C5_Witness ==
  /\ Returned
  /\ Len(attemptLog) = maxRetries
  /\ attemptLog[1].outcome = "error"
  /\ attemptLog[maxRetries].outcome = "ok"

\* C10 as stated: with empty strings and at least one non-empty string in
\* the input, the empty entries are dropped, the call is not rejected for
\* lack of valid input, and one vector is returned per non-empty entry, in
\* the order of these entries.
C10_EmptyEntriesFiltered ==
  ( /\ \E i \in 1..Len(texts) : ~IsNonEmpty(texts[i])
    /\ \E i \in 1..Len(texts) : IsNonEmpty(texts[i]) ) =>
    /\ embedError # "No valid texts after filtering empty strings"
    /\ \A k \in 1..Len(validTexts) : IsNonEmpty(validTexts[k])
    /\ Returned =>
         embedResult.embeddings = EmbeddingsOf(SelectSeq(texts, IsNonEmpty))

NoValidInputError == "No valid texts after filtering empty strings"

\* C11 as stated: the call fails with the no-valid-input error only when no
\* entry of the whole input is left after filtering; an input with at least
\* one valid text is never rejected for that reason, however its entries
\* fall into sub-batches.
C11_RejectedOnlyWhenAllInvalid ==
  (embedError = NoValidInputError) =>
    \A i \in 1..Len(texts) : ~IsValidText(texts[i])

\* positions of the log whose attempt ended in a thrown error
ErrorAttempts(log) == {k \in 1..Len(log) : log[k].outcome = "error"}

\* C12 as stated: a 429 answer is followed by a wait of the advertised
\* retry-after interval (5 s by default) and a retry; it uses up none of the
\* maxRetries attempts (the call gives up only after maxRetries thrown
\* errors) and leaves the backoff schedule alone (the j-th thrown error is
\* followed by the j-th delay of the schedule).
C12_RateLimitNotCounted ==
  /\ \A k \in 1..Len(attemptLog) :
       attemptLog[k].outcome = "rate_limited" =>
         attemptLog[k].slept \in {retryAfter(h) * 1000 : h \in RetryAfterHeaders}
  /\ (embedError = "Failed to generate embeddings") =>
       Cardinality(ErrorAttempts(attemptLog)) = maxRetries
  /\ \A k \in ErrorAttempts(attemptLog) :
       LET j == Cardinality({m \in ErrorAttempts(attemptLog) : m < k}) IN
         j < maxRetries - 1 => attemptLog[k].slept = backoffMs(j)

\* the number of thrown errors among the first k - 1 attempts of the log
FailuresBefore(log, k) == Cardinality({m \in ErrorAttempts(log) : m < k})

\* C31 as stated: the attempt that fails after k failed attempts of the call
\* is followed by a wait of min(1000 * 2^k, 10000) ms, and the failure that
\* uses up the last permitted attempt is followed by no wait.
C31_BackoffDoubles ==
  \A n \in ErrorAttempts(attemptLog) :
    LET k == FailuresBefore(attemptLog, n) IN
      /\ k < maxRetries - 1 =>
           attemptLog[n].slept = Min(1000 * Pow2(k), 10000)
      /\ k = maxRetries - 1 => attemptLog[n].slept = 0

\* C32: whenever generateEmbeddingsBatch is about to hand a further
\* sub-batch to generateEmbeddings, the call for the sub-batch before it has
\* completed with an answer and has been followed by the inter-batch delay
\* of 100 ms; every request is made with all earlier sub-batches answered.
C32_DelayBetweenSubBatches ==
  /\ (epc = "sub_batch" /\ batchStart > 0) =>
       /\ Len(attemptLog) > 0
       /\ attemptLog[Len(attemptLog)].outcome = "ok"
       /\ attemptLog[Len(attemptLog)].slept = 100
  /\ (epc = "attempt" /\ ~direct) => batchStart = batchesDone * batchSize

\* C32 witness: the first sub-batch was answered at once and the second
\* sub-batch is about to be requested
C32_Witness ==
  /\ epc = "sub_batch"
  /\ batchStart > 0
  /\ batchesDone = 1
  /\ Len(attemptLog) = 1

\* Math.ceil(texts.length / batchSize)
BatchCount == (Len(texts) + batchSize - 1) \div batchSize

\* the k-th of the consecutive blocks of batchSize texts, k counted from 1
Block(k) ==
  SubSeq(texts, (k - 1) * batchSize + 1, Min(k * batchSize, Len(texts)))

\* the embeddings of the blocks k..BatchCount, block after block
RECURSIVE BlockEmbeddings(_)
BlockEmbeddings(k) ==
  IF k > BatchCount THEN <<>>
  ELSE LET valid == SelectSeq(Block(k), IsValidText) IN
         [j \in 1..Len(valid) |-> Embedding(valid[j])] \o BlockEmbeddings(k + 1)

\* C30: every request to the provider carries the next of the consecutive
\* blocks of at most batchSize texts (blocks that cover each text once); a
\* call that returns has had every block answered, with exactly one request
\* per block, ceil(N / batchSize) in all, when no request failed, and returns
\* the answers concatenated in block order.
C30_OneCallPerSubBatch ==
  /\ epc = "attempt" =>
       /\ batchesDone < BatchCount
       /\ Len(Block(batchesDone + 1)) \in 1..batchSize
       /\ validTexts = SelectSeq(Block(batchesDone + 1), IsValidText)
  /\ epc = "done" =>
       /\ batchesDone = BatchCount
       /\ remoteCalls >= BatchCount
       /\ remoteCalls = batchesDone => remoteCalls = BatchCount
       /\ embedResult.embeddings = BlockEmbeddings(1)

\* C30 witness: a call over several sub-batches, the last one shorter than
\* batchSize, has returned without a failed request
C30_Witness ==
  /\ epc = "done"
  /\ ~direct
  /\ Len(texts) % batchSize # 0
  /\ BatchCount >= 2
  /\ remoteCalls = BatchCount

(***************************************************************************)
(* Ingestion: the data-aggregate request handler and its storage           *)
(***************************************************************************)
IngestStates == {"idle", "request", "store_document", "chunk", "store_chunks",
                 "embed", "store_embeddings", "finish"}

\* document contents; the fetchers drop a document whose content is the
\* empty string, a content of white space only gets through
Contents == { <<" ">>, <<"a", "b">>, <<"b">> }

Docs == [url : Urls, content : Contents]

\* the document lists a run may fetch: no url twice
DocLists ==
  { seq \in UNION { [1..n -> Docs] : n \in 0..MaxDocs } :
      \A i, j \in 1..Len(seq) : seq[i].url = seq[j].url => i = j }

\* splitter.splitText(text): the library splitter, here one chunk per
\* character that is not white space, in order
RECURSIVE splitText(_)
splitText(text) ==
  IF Len(text) = 0 THEN <<>>
  ELSE IF IsWhitespace(Head(text)) THEN splitText(Tail(text))
       ELSE <<(<<Head(text)>>)>> \o splitText(Tail(text))

\* a mapping that counts the chunks from 1
DocumentChunk_oneBased(pieces, k) ==
  [text |-> pieces[k], index |-> k,
   metadata |-> [chunkIndex |-> k, totalChunks |-> Len(pieces),
                 chunkLength |-> Len(pieces[k])]]

\* chunks.map((chunkText, index) => ({text, index, metadata: {...}})), for
\* the k-th piece, k counted from 1
DocumentChunk(pieces, k) ==
  [text |-> pieces[k], index |-> k - 1,
   metadata |-> [chunkIndex |-> k - 1, totalChunks |-> Len(pieces),
                 chunkLength |-> Len(pieces[k])]]

\* a chunker that rejects blank text with an error
chunkMarkdown_rejectBlank(text) ==
  IF Len(text) = 0 \/ Len(trim(text)) = 0
    THEN [raised |-> TRUE, chunks |-> <<>>]
    ELSE LET pieces == splitText(text) IN
           [raised |-> FALSE,
            chunks |-> [k \in 1..Len(pieces) |-> DocumentChunk(pieces, k)]]

\* chunkMarkdown(text, metadata): blank text gives [], other text the
\* splitter's pieces with their index
chunkMarkdown(text) ==
  IF Len(text) = 0 \/ Len(trim(text)) = 0
    THEN [raised |-> FALSE, chunks |-> <<>>]
    ELSE LET pieces == splitText(text) IN
           [raised |-> FALSE,
            chunks |-> [k \in 1..Len(pieces) |-> DocumentChunk(pieces, k)]]

ZeroStats == [documentsProcessed |-> 0, chunksCreated |-> 0,
              embeddingsCreated |-> 0, documentsSkipped |-> 0,
              documentsFailed |-> 0]

\* rows of a document, and the embeddings that hang on them
ChunksOf(url) == {c \in document_chunks : c.document_id = url}
EmbeddingsOfChunks(rows) == {e \in embeddings : \E c \in rows : e.chunk_id = c.id}

\* DELETE FROM document_chunks WHERE document_id = url, with ON DELETE
\* CASCADE on embeddings.chunk_id
DeleteChunks(url) ==
  [chunks |-> document_chunks \ ChunksOf(url),
   embeddings |-> embeddings \ EmbeddingsOfChunks(ChunksOf(url))]

\* a storeChunks that inserts without deleting the earlier rows
ReplaceChunks_keepOld(url) ==
  [chunks |-> document_chunks, embeddings |-> embeddings]

\* storeChunks: delete existing chunks for this document
ReplaceChunks(url) == DeleteChunks(url)

IngestInit ==
  /\ ipc = "request"
  /\ repositories = FALSE
  /\ documents = {}
  /\ document_chunks = {}
  /\ embeddings = {}
  /\ nextChunkId = 1
  /\ allDocuments = <<>>
  /\ docIdx = 0
  /\ chunks = <<>>
  /\ chunkRecords = <<>>
  /\ embeddingResult = NoResult
  /\ stats = ZeroStats
  /\ httpStatus = 0
  /\ runs = 0
  /\ lastRun = [u \in Urls |-> NoRun]
  /\ LoopIdle
  /\ EmbedIdle
  /\ RagIdle
  /\ RetrieveIdle
  /\ CrawlIdle
  /\ ChatIdle
  /\ RaceIdle
  /\ StoreCallIdle
  /\ ApiIdle

CurrentDoc == allDocuments[docIdx]

\* the end of one turn of the document loop: go to the next document, or to
\* the statistics update
NextDocument ==
  /\ docIdx' = docIdx + 1
  /\ ipc' = IF docIdx < Len(allDocuments) THEN "store_document" ELSE "finish"

\* a catch that counts the failure and leaves the document loop
DocumentFailed_abortRun(produced, vectors) ==
  /\ stats' = [stats EXCEPT !.documentsFailed = @ + 1]
  /\ lastRun' = [lastRun EXCEPT ![CurrentDoc.url] =
                   [@ EXCEPT !.outcome = "failed", !.chunks = produced,
                             !.embeddings = vectors, !.repeated = FALSE]]
  /\ docIdx' = docIdx
  /\ ipc' = "finish"

\* the catch of the document loop: count the failure, go on
DocumentFailed(produced, vectors) ==
  /\ stats' = [stats EXCEPT !.documentsFailed = @ + 1]
  /\ lastRun' = [lastRun EXCEPT ![CurrentDoc.url] =
                   [@ EXCEPT !.outcome = "failed", !.chunks = produced,
                             !.embeddings = vectors, !.repeated = FALSE]]
  /\ NextDocument

\* isRepositoryProcessed: the count of matching rows is positive; a failed
\* query is caught and answered with false
isRepositoryProcessed(exists, queryFails) ==
  IF queryFails THEN FALSE ELSE exists

\* the request handler up to the document loop: the force check, the
\* fetches, the repository record
Request(force) ==
  /\ ipc = "request"
  /\ runs < MaxRuns
  /\ runs' = runs + 1
  /\ \E queryFails \in BOOLEAN, fetched \in DocLists :
       IF ~force /\ isRepositoryProcessed(repositories, queryFails)
         THEN /\ httpStatus' = 409
              /\ UNCHANGED <<ipc, repositories, allDocuments, docIdx, stats>>
         ELSE IF Len(fetched) = 0
           THEN /\ httpStatus' = 404
                /\ UNCHANGED <<ipc, repositories, allDocuments, docIdx, stats>>
           ELSE /\ repositories' = TRUE
                /\ allDocuments' = fetched
                /\ docIdx' = 1
                /\ stats' = ZeroStats
                /\ ipc' = "store_document"
                /\ httpStatus' = 0
  /\ UNCHANGED <<documents, document_chunks, embeddings, nextChunkId, chunks,
                 chunkRecords, embeddingResult, lastRun>>

HandleRequest == \E force \in BOOLEAN : Request(force)

\* storeDocument: upsert on (repository_id, url); the row's url stands for
\* its id
StoreDocument ==
  /\ ipc = "store_document"
  /\ \E outcome \in {"ok", "error"} :
       IF outcome = "ok"
         THEN /\ documents' = {d \in documents : d.url # CurrentDoc.url}
                                \cup {[url |-> CurrentDoc.url, content |-> CurrentDoc.content]}
              /\ ipc' = "chunk"
              /\ lastRun' = [lastRun EXCEPT ![CurrentDoc.url] =
                               [@ EXCEPT !.before =
                                  [chunks |-> ChunksOf(CurrentDoc.url),
                                   embeddings |->
                                     EmbeddingsOfChunks(ChunksOf(CurrentDoc.url))]]]
              /\ UNCHANGED <<docIdx, stats>>
         ELSE /\ DocumentFailed(<<>>, <<>>)
              /\ UNCHANGED documents
  /\ UNCHANGED <<repositories, document_chunks, embeddings, nextChunkId, allDocuments,
                 chunks, chunkRecords, embeddingResult, httpStatus, runs>>

\* chunkMarkdown, and the check for no chunks: warn and continue
ChunkDocument ==
  /\ ipc = "chunk"
  /\ LET r == chunkMarkdown(CurrentDoc.content) IN
       IF r.raised
         THEN /\ DocumentFailed(<<>>, <<>>)
              /\ UNCHANGED chunks
         ELSE /\ chunks' = r.chunks
              /\ IF Len(r.chunks) = 0
                   THEN /\ NextDocument
                        /\ lastRun' = [lastRun EXCEPT ![CurrentDoc.url] =
                             [@ EXCEPT !.outcome = "skipped", !.chunks = <<>>,
                                       !.embeddings = <<>>, !.repeated = FALSE]]
                   ELSE /\ ipc' = "store_chunks"
                        /\ UNCHANGED <<docIdx, lastRun>>
              /\ UNCHANGED stats
  /\ UNCHANGED <<repositories, documents, document_chunks, embeddings, nextChunkId,
                 allDocuments, chunkRecords, embeddingResult, httpStatus, runs>>

ChunkTexts(list) == [k \in 1..Len(list) |-> list[k].text]

\* storeChunks: delete the document's rows, insert the new ones
StoreChunks ==
  /\ ipc = "store_chunks"
  /\ \E outcome \in {"ok", "delete_error", "insert_error"} :
       LET url == CurrentDoc.url
           kept == ReplaceChunks(url)
           rows == [k \in 1..Len(chunks) |->
                      [id |-> nextChunkId + k - 1, document_id |-> url,
                       chunk_index |-> chunks[k].index, chunk_text |-> chunks[k].text]]
       IN CASE outcome = "delete_error" ->
                 /\ DocumentFailed(ChunkTexts(chunks), <<>>)
                 /\ UNCHANGED <<document_chunks, embeddings, nextChunkId, chunkRecords>>
            [] outcome = "insert_error" ->
                 /\ document_chunks' = kept.chunks
                 /\ embeddings' = kept.embeddings
                 /\ DocumentFailed(ChunkTexts(chunks), <<>>)
                 /\ UNCHANGED <<nextChunkId, chunkRecords>>
            [] outcome = "ok" ->
                 /\ document_chunks' = kept.chunks \cup Range(rows)
                 /\ embeddings' = kept.embeddings
                 /\ nextChunkId' = nextChunkId + Len(chunks)
                 /\ chunkRecords' = rows
                 /\ stats' = [stats EXCEPT !.chunksCreated = @ + Len(rows)]
                 /\ ipc' = "embed"
                 /\ UNCHANGED <<docIdx, lastRun>>
  /\ UNCHANGED <<repositories, documents, allDocuments, chunks, embeddingResult,
                 httpStatus, runs>>

\* generateEmbeddingsBatch(chunkTexts): the vectors of the valid texts, or
\* an error
GenerateEmbeddings ==
  /\ ipc = "embed"
  /\ LET chunkTexts == ChunkTexts(chunks)
         valid == SelectSeq(chunkTexts, IsValidText)
     IN \E outcome \in {"ok", "error"} :
          IF outcome = "ok" /\ Len(valid) > 0
            THEN /\ embeddingResult' =
                      [kind |-> "embeddings",
                       embeddings |-> [k \in 1..Len(valid) |-> Embedding(valid[k])]]
                 /\ ipc' = "store_embeddings"
                 /\ UNCHANGED <<docIdx, stats, lastRun>>
            ELSE /\ DocumentFailed(chunkTexts, <<>>)
                 /\ UNCHANGED embeddingResult
  /\ UNCHANGED <<repositories, documents, document_chunks, embeddings, nextChunkId,
                 allDocuments, chunks, chunkRecords, httpStatus, runs>>

\* a storeEmbeddings that deletes before it compares the lengths
storeEmbeddings_deleteFirst(records, vectors, stored, outcome) ==
  LET ids == {records[k].id : k \in 1..Len(records)}
      remaining == {e \in stored : e.chunk_id \notin ids}
  IN IF Len(records) = 0
       THEN [raised |-> FALSE, embeddings |-> stored]
       ELSE IF outcome = "delete_error"
         THEN [raised |-> TRUE, embeddings |-> stored]
         ELSE IF Len(records) # Len(vectors) \/ outcome = "insert_error"
           THEN [raised |-> TRUE, embeddings |-> remaining]
           ELSE [raised |-> FALSE,
                 embeddings |-> remaining \cup
                   {[chunk_id |-> records[k].id, embedding |-> vectors[k]] :
                      k \in 1..Len(records)}]

\* storeEmbeddings(client, chunkRecords, embeddings, model, provider): no
\* records, return []; different lengths, throw; then delete the
\* embeddings of the records and insert the new ones
storeEmbeddings(records, vectors, stored, outcome) ==
  LET ids == {records[k].id : k \in 1..Len(records)}
      remaining == {e \in stored : e.chunk_id \notin ids}
  IN IF Len(records) = 0
       THEN [raised |-> FALSE, embeddings |-> stored]
       ELSE IF Len(records) # Len(vectors) \/ outcome = "delete_error"
         THEN [raised |-> TRUE, embeddings |-> stored]
         ELSE IF outcome = "insert_error"
           THEN [raised |-> TRUE, embeddings |-> remaining]
           ELSE [raised |-> FALSE,
                 embeddings |-> remaining \cup
                   {[chunk_id |-> records[k].id, embedding |-> vectors[k]] :
                      k \in 1..Len(records)}]

\* storeEmbeddings, then the counters of a processed document
StoreEmbeddings ==
  /\ ipc = "store_embeddings"
  /\ \E outcome \in {"ok", "delete_error", "insert_error"} :
       LET vectors == embeddingResult.embeddings
           r == storeEmbeddings(chunkRecords, vectors, embeddings, outcome)
       IN IF r.raised
            THEN /\ embeddings' = r.embeddings
                 /\ DocumentFailed(ChunkTexts(chunks), vectors)
            ELSE /\ embeddings' = r.embeddings
                 /\ stats' = [stats EXCEPT !.embeddingsCreated = @ + Len(vectors),
                                             !.documentsProcessed = @ + 1]
                   /\ lastRun' = [lastRun EXCEPT ![CurrentDoc.url] =
                        [outcome |-> "processed", chunks |-> ChunkTexts(chunks),
                         embeddings |-> vectors, before |-> @.before,
                         processed |-> @.processed + 1,
                         repeated |-> (@.processed >= 1 /\ @.chunks = ChunkTexts(chunks))]]
                   /\ NextDocument
  /\ UNCHANGED <<repositories, documents, document_chunks, nextChunkId, allDocuments,
                 chunks, chunkRecords, embeddingResult, httpStatus, runs>>

\* updateRepositoryStats and the response
FinishRun ==
  /\ ipc = "finish"
  /\ ipc' = "request"
  /\ httpStatus' = 200
  /\ UNCHANGED <<repositories, documents, document_chunks, embeddings, nextChunkId,
                 allDocuments, docIdx, chunks, chunkRecords, embeddingResult, stats,
                 runs, lastRun>>

IngestNext ==
  \/ HandleRequest /\ UNCHANGED <<lvars, evars, rvars, qvars, cvars, hvars, xvars, svars, avars>>
  \/ StoreDocument /\ UNCHANGED <<lvars, evars, rvars, qvars, cvars, hvars, xvars, svars, avars>>
  \/ ChunkDocument /\ UNCHANGED <<lvars, evars, rvars, qvars, cvars, hvars, xvars, svars, avars>>
  \/ StoreChunks /\ UNCHANGED <<lvars, evars, rvars, qvars, cvars, hvars, xvars, svars, avars>>
  \/ GenerateEmbeddings /\ UNCHANGED <<lvars, evars, rvars, qvars, cvars, hvars, xvars, svars, avars>>
  \/ StoreEmbeddings /\ UNCHANGED <<lvars, evars, rvars, qvars, cvars, hvars, xvars, svars, avars>>
  \/ FinishRun /\ UNCHANGED <<lvars, evars, rvars, qvars, cvars, hvars, xvars, svars, avars>>

IngestSpec == IngestInit /\ [][IngestNext]_vars

(***************************************************************************)
(* Properties of ingestion                                                 *)
(***************************************************************************)
IsBlank(text) == Len(text) = 0 \/ \A k \in 1..Len(text) : IsWhitespace(text[k])

\* the stored chunks of a document are the given texts, index by index, and
\* each has exactly the given vector as its one embedding
StoredIsExactly(url, chunkTexts, vectors) ==
  LET rows == ChunksOf(url) IN
    /\ Cardinality(rows) = Len(chunkTexts)
    /\ Cardinality(EmbeddingsOfChunks(rows)) = Len(vectors)
    /\ \A k \in 1..Len(chunkTexts) :
         \E c \in rows :
           /\ c.chunk_index = k - 1
           /\ c.chunk_text = chunkTexts[k]
           /\ k <= Len(vectors) =>
                [chunk_id |-> c.id, embedding |-> vectors[k]] \in embeddings

\* no run is working on this document
Settled(url) ==
  \/ ipc \in {"request", "finish"}
  \/ allDocuments[docIdx].url # url
  \/ ipc = "store_document"

\* no two chunks of a document share an index, no chunk has two embeddings
NoDuplicates(url) ==
  /\ \A c1, c2 \in ChunksOf(url) : c1.chunk_index = c2.chunk_index => c1 = c2
  /\ \A e1, e2 \in embeddings : e1.chunk_id = e2.chunk_id => e1 = e2

ChunkingBlank == ipc = "chunk" /\ IsBlank(allDocuments[docIdx].content)

C14_OneToOne ==
  (ipc = "request") =>
    /\ \A c \in document_chunks :
         Cardinality({e \in embeddings : e.chunk_id = c.id}) = 1
    /\ \A e \in embeddings :
         Cardinality({c \in document_chunks : c.id = e.chunk_id}) = 1

\* the documents of this run whose turn of the loop ended in the given way
DocumentsWith(outcome) ==
  {k \in 1..Len(allDocuments) : lastRun[allDocuments[k].url].outcome = outcome}

\* C15: a failure while storing, chunking or embedding a document ends the
\* turn of that document only: the loop goes on to the next document, the
\* run reaches its end with every document visited, and the failed
\* documents are the ones counted in documentsFailed.
C15_FailureIsPerDocument ==
  /\ [](ipc = "finish" =>
         /\ docIdx = Len(allDocuments) + 1
         /\ \A k \in 1..Len(allDocuments) :
              lastRun[allDocuments[k].url].outcome \in {"processed", "failed", "skipped"}
         /\ stats.documentsFailed = Cardinality(DocumentsWith("failed"))
         /\ stats.documentsProcessed = Cardinality(DocumentsWith("processed")))
  /\ [][stats'.documentsFailed > stats.documentsFailed =>
         /\ lastRun'[CurrentDoc.url].outcome = "failed"
         /\ docIdx' = docIdx + 1
         /\ ipc' = IF docIdx < Len(allDocuments) THEN "store_document" ELSE "finish"
         /\ stats'.documentsProcessed = stats.documentsProcessed]_vars

\* a run over two documents: the first failed, the second was processed
C15_Witness ==
  /\ ipc = "finish"
  /\ Len(allDocuments) = 2
  /\ lastRun[allDocuments[1].url].outcome = "failed"
  /\ lastRun[allDocuments[2].url].outcome = "processed"
  /\ stats.documentsFailed = 1
  /\ stats.documentsProcessed = 1

\* the texts of the chunks put one after the other, in index order (the
\* pieces of splitText share no character, so there is no overlap to strip)
RECURSIVE Rejoin(_)
Rejoin(list) ==
  IF Len(list) = 0 THEN <<>> ELSE Head(list).text \o Rejoin(Tail(list))

\* C22 as stated: for any document, the chunks chunkMarkdown returns for it,
\* re-joined in index order, are the document's text exactly: no character
\* is lost, added or changed.
C22_ChunksReconstructDocument ==
  [][(ipc = "chunk" /\ stats'.documentsFailed = stats.documentsFailed) =>
       /\ \A k \in 1..Len(chunks') : chunks'[k].index = k - 1
       /\ Rejoin(chunks') = CurrentDoc.content]_vars

\* C23 as stated: a request without force for a repository that already
\* exists is answered with 409 and leaves the stored repository, documents,
\* chunks and embeddings as they are, and no document is fetched; the same
\* request with force is not answered with 409.
C23_ExistingRepositoryRejected ==
  /\ [][(Request(FALSE) /\ repositories) =>
         /\ httpStatus' = 409
         /\ ipc' = "request"
         /\ UNCHANGED <<repositories, documents, document_chunks, embeddings,
                        allDocuments>>]_vars
  /\ [][(Request(TRUE) /\ repositories) => httpStatus' # 409]_vars

(***************************************************************************)
(* Properties of the retrieval and sufficiency policy                      *)
(***************************************************************************)
\* some match reaches the score x, and none exceeds it
IsBestScore(seq, x) ==
  /\ \E k \in 1..Len(seq) : seq[k].similarity = x
  /\ \A k \in 1..Len(seq) : seq[k].similarity <= x

\* C7: isContextSufficient answers FALSE for no match, for fewer than
\* minChunksForContext matches and for a best score below fallbackThreshold,
\* and TRUE in every other case, however weak the other matches are; it has
\* an answer for every list.
C7_SufficiencyPolicy ==
  (rpc = "isContextSufficient") =>
    /\ sufficient \in BOOLEAN
    /\ (Len(sources) = 0 => sufficient = FALSE)
    /\ (Len(sources) < minChunksForContext => sufficient = FALSE)
    /\ (\E x \in Similarities : IsBestScore(sources, x) /\ x < fallbackThreshold)
         => sufficient = FALSE
    /\ ( /\ Len(sources) >= 1
         /\ Len(sources) >= minChunksForContext
         /\ \E x \in Similarities : IsBestScore(sources, x) /\ x >= fallbackThreshold )
         => sufficient = TRUE

\* best score 0.9 with a weak second match of 0.3: sufficient
C7_Witness ==
  /\ rpc = "isContextSufficient"
  /\ Len(sources) = 2
  /\ sources[1].similarity = 90
  /\ sources[2].similarity = 30
  /\ sufficient = TRUE

\* C8 as stated: when the combined text of the matches exceeds maxLength,
\* the returned sources together are no longer than maxLength and truncated
\* is TRUE.
C8_TruncationFlagged ==
  (rpc = "prepareContext" /\ TotalLength(sources) > maxLength) =>
    /\ TotalLength(prepared.sources) <= maxLength
    /\ prepared.truncated = TRUE

\* the number of leading matches that fit entirely, one after the other
FittingPrefix ==
  Cardinality({k \in 1..Len(sources) :
                 TotalLength(SubSeq(sources, 1, k)) <= maxLength})

\* the budget that the leading matches leave
RemainingBudget == maxLength - TotalLength(SubSeq(sources, 1, FittingPrefix))

\* C29: prepareContext returns the leading matches that fit entirely,
\* unchanged and in the given order; the first match that does not fit
\* follows as a shortened copy ending in the marker '...' when the remaining
\* budget is above 200, and is left out otherwise; nothing after it is
\* returned.
C29_PrefixWithShortenedTail ==
  rpc = "prepareContext" =>
    LET out == prepared.sources
        n == FittingPrefix
    IN /\ Len(out) >= n
       /\ SubSeq(out, 1, n) = SubSeq(sources, 1, n)
       /\ n = Len(sources) => out = sources
       /\ (n < Len(sources) /\ RemainingBudget > 200) =>
            /\ Len(out) = n + 1
            /\ out[n + 1].chunkId = sources[n + 1].chunkId
            /\ out[n + 1].similarity = sources[n + 1].similarity
            /\ out[n + 1].chunkText.marked
            /\ out[n + 1].chunkText.length < sources[n + 1].chunkText.length
            /\ out[n + 1].chunkText.length <= RemainingBudget
       /\ (n < Len(sources) /\ RemainingBudget <= 200) => Len(out) = n

\* C29 witness: a match was cut down to the remaining budget and the match
\* after it was left out
C29_Witness ==
  /\ rpc = "prepareContext"
  /\ FittingPrefix >= 1
  /\ Len(sources) > FittingPrefix + 1
  /\ Len(prepared.sources) = FittingPrefix + 1
  /\ prepared.sources[FittingPrefix + 1].chunkText.marked

(***************************************************************************)
(* Properties of the tool-augmented completion loop                        *)
(***************************************************************************)
\* positions of the assistant messages the loop appended
AssistantPositions ==
  {k \in 1..Len(currentMessages) : currentMessages[k].role = "assistant"}

\* the position of the last assistant message (0 when there is none)
LastAssistant ==
  IF AssistantPositions = {} THEN 0
  ELSE CHOOSE k \in AssistantPositions : \A j \in AssistantPositions : j <= k

\* every model call made so far succeeded and requested at least one tool
EveryResponseRequestedTools == Cardinality(AssistantPositions) = modelCalls

\* steps the loop can still take: strictly decreasing, never negative
LoopVariant ==
  (maxToolCalls + 1 - iterationCount) * (MaxCallsPerResponse + 2)
  + (IF lpc = "executing_tools" THEN Len(response.toolCalls) + 1 - toolIdx ELSE 0)
  + (IF lpc \in LoopTerminal THEN 0 ELSE 1)

C1_Budget ==
  /\ modelCalls <= maxToolCalls
  /\ modelCalls <= 5
  /\ LoopVariant >= 0
  /\ (lpc = "exhausted") =>
       /\ modelCalls = maxToolCalls
       /\ loopError = "Maximum tool call iterations exceeded"
       /\ loopResult = NoResult
  /\ (lpc \in LoopTerminal /\ EveryResponseRequestedTools) =>
       (lpc = "exhausted" /\ modelCalls = maxToolCalls)

\* C1: when every model response requests a tool call, the loop ends after
\* exactly maxToolCalls (5) model calls with the iteration-budget error; it
\* never makes a further model call, and every step brings it closer to its
\* end (the variant decreases), whatever the tools return.
C1_LoopTerminatesAtBudget ==
  [](C1_Budget) /\ [][LoopVariant' < LoopVariant]_vars

\* five model calls that all requested tools, at least one tool failed, and
\* the budget error was raised
C1_Witness ==
  /\ lpc = "exhausted"
  /\ modelCalls = 5
  /\ EveryResponseRequestedTools
  /\ \E i \in 1..Len(toolLog) : ~toolLog[i].ok
  /\ \E i \in 1..Len(toolLog) : toolLog[i].ok

\* the tool messages that follow the last assistant message answer, in
\* order, the calls of the current response executed so far
ToolResultsFollowAssistant ==
  LastAssistant > 0 =>
    LET k == LastAssistant
        requested == currentMessages[k].tool_calls
        executed == Len(currentMessages) - k
        first == Len(toolLog) - executed
    IN /\ executed <= Len(requested)
       /\ first >= 0
       /\ (lpc # "executing_tools" => executed = Len(requested))
       /\ \A j \in 1..executed :
            LET m == currentMessages[k + j]
                e == toolLog[first + j]
            IN /\ m.role = "tool"
               /\ m.tool_call_id = requested[j].id
               /\ e.id = m.tool_call_id
               /\ m.content.error = ~e.ok
               /\ m.content.text = e.value

\* C6: a failing tool never aborts the loop and never becomes the loop's
\* error: the error text is the content of that call's tool message, the
\* other calls of the response are still executed, and the only errors the
\* loop raises are a failed model call and the iteration budget.
C6_ToolFailuresAreFoldedBack ==
  /\ loopError \in {"none", "Failed to call OpenAI",
                    "Maximum tool call iterations exceeded"}
  /\ (lpc = "failed") => (loopError = "Failed to call OpenAI")
  /\ ToolResultsFollowAssistant
  /\ Len(toolLog) =
       toolsRequested - (IF lpc = "executing_tools"
                           THEN Len(response.toolCalls) + 1 - toolIdx ELSE 0)

\* the first call of a two-call response failed, the second was executed,
\* and the loop made its next model call
C6_Witness ==
  /\ modelCalls >= 2
  /\ lpc \in {"done", "executing_tools"}
  /\ \E i \in 1..(Len(toolLog) - 1) :
       /\ ~toolLog[i].ok
       /\ toolLog[i + 1].ok
       /\ toolLog[i].id \div 10 = toolLog[i + 1].id \div 10
       /\ toolLog[i].id \div 10 < modelCalls

\* the component-wise sum of a sequence of usage records
RECURSIVE SumUsage(_)
SumUsage(log) ==
  IF Len(log) = 0 THEN [promptTokens |-> 0, completionTokens |-> 0, totalTokens |-> 0]
  ELSE LET rest == SumUsage(Tail(log)) IN
         [promptTokens |-> Head(log).promptTokens + rest.promptTokens,
          completionTokens |-> Head(log).completionTokens + rest.completionTokens,
          totalTokens |-> Head(log).totalTokens + rest.totalTokens]

\* C13: when a response requests no tool, the loop returns the content of
\* that response and a usage record whose prompt, completion and total
\* counts are the sums over every model call of the run.
C13_UsageIsSummed ==
  (lpc = "done") =>
    /\ Len(response.toolCalls) = 0
    /\ Len(usageLog) = modelCalls
    /\ usageLog[modelCalls] = response.usage
    /\ loopResult.kind = "response"
    /\ loopResult.content = response.content
    /\ loopResult.usage.promptTokens = SumUsage(usageLog).promptTokens
    /\ loopResult.usage.completionTokens = SumUsage(usageLog).completionTokens
    /\ loopResult.usage.totalTokens = SumUsage(usageLog).totalTokens

\* a final answer after two tool iterations: the returned usage exceeds the
\* usage of the final call
C13_Witness ==
  /\ lpc = "done"
  /\ modelCalls = 3
  /\ loopResult.usage.totalTokens > response.usage.totalTokens
  /\ loopResult.usage.promptTokens > response.usage.promptTokens
  /\ loopResult.usage.completionTokens > response.usage.completionTokens

\* the identifiers of the calls requested by an assistant message
RequestedIds(m) == {m.tool_calls[j].id : j \in 1..Len(m.tool_calls)}

\* the conversation ends with the assistant message of the current response
AssistantMessageAppended ==
  /\ LastAssistant > 0
  /\ currentMessages[LastAssistant].role = "assistant"
  /\ currentMessages[LastAssistant].tool_calls = response.toolCalls
  /\ \A p \in (LastAssistant + 1)..Len(currentMessages) :
       currentMessages[p].tool_call_id \in RequestedIds(currentMessages[LastAssistant])

\* C16: while the tools of a response are executed the conversation holds
\* the assistant message with exactly the requests of that response, their
\* identifiers unchanged; every tool result message comes after the
\* assistant message that requested its call; and no tool is executed
\* before that assistant message has been appended.
C16_AssistantMessageFirst ==
  /\ [](lpc = "executing_tools" => AssistantMessageAppended)
  /\ [](\A p \in 1..Len(currentMessages) :
         currentMessages[p].role = "tool" =>
           \E q \in 1..(p - 1) :
             /\ currentMessages[q].role = "assistant"
             /\ currentMessages[p].tool_call_id \in RequestedIds(currentMessages[q]))
  /\ [][toolLog' # toolLog =>
         /\ AssistantMessageAppended
         /\ toolLog'[Len(toolLog')].id \in RequestedIds(currentMessages[LastAssistant])]_vars

\* the second response requested two calls; its assistant message is in the
\* conversation and none of the two has been executed yet
C16_Witness ==
  /\ lpc = "executing_tools"
  /\ modelCalls = 2
  /\ Len(response.toolCalls) = 2
  /\ toolIdx = 1
  /\ LastAssistant = Len(currentMessages)
  /\ currentMessages[LastAssistant].tool_calls = response.toolCalls
  /\ Len(toolLog) = toolsRequested - 2

\* the assistant message at position k is followed by the result messages
\* of its calls, one per call, in the order of the requests
ResultsInRequestOrder(k) ==
  LET requested == currentMessages[k].tool_calls IN
    /\ k + Len(requested) <= Len(currentMessages)
    /\ \A j \in 1..Len(requested) :
         /\ currentMessages[k + j].role = "tool"
         /\ currentMessages[k + j].tool_call_id = requested[j].id
         /\ currentMessages[k + j].name = requested[j].name
    /\ (k + Len(requested) < Len(currentMessages)) =>
         currentMessages[k + Len(requested) + 1].role = "assistant"

\* C17: after each tool-execution step the assistant message is directly
\* followed by exactly one result message per requested call, each with the
\* identifier of the call it answers, in the order in which the model issued
\* the calls; the place of a result depends on the request alone, not on how
\* or when the tools ended.
C17_OneResultPerCallInOrder ==
  /\ \A k \in AssistantPositions :
       (k # LastAssistant \/ lpc # "executing_tools") => ResultsInRequestOrder(k)
  /\ \A p, q \in 1..Len(currentMessages) :
       ( /\ currentMessages[p].role = "tool"
         /\ currentMessages[q].role = "tool"
         /\ currentMessages[p].tool_call_id = currentMessages[q].tool_call_id ) => p = q
  /\ Cardinality({p \in 1..Len(currentMessages) : currentMessages[p].role = "tool"})
       = Len(toolLog)

\* a step of two calls issued with the larger identifier first, the first
\* call timed out and the second succeeded: the results are in request order
C17_Witness ==
  /\ lpc = "awaiting_model"
  /\ LastAssistant > 0
  /\ Len(currentMessages) = LastAssistant + 2
  /\ LET requested == currentMessages[LastAssistant].tool_calls IN
       /\ Len(requested) = 2
       /\ requested[1].id > requested[2].id
       /\ currentMessages[LastAssistant + 1].tool_call_id = requested[1].id
       /\ currentMessages[LastAssistant + 1].content = ErrorContent("Tavily search timeout")
       /\ currentMessages[LastAssistant + 2].tool_call_id = requested[2].id
       /\ currentMessages[LastAssistant + 2].content = TextContent("search_results")

\* C18 as stated: between two iterations the loop can be stopped on the
\* caller's request, without a further model call, and then returns the
\* usage accumulated so far; a loop that stopped between iterations has
\* returned that usage.
C18_AbortReturnsUsage ==
  /\ (lpc = "awaiting_model" /\ modelCalls > 0) =>
       ENABLED ( /\ LoopNext
                 /\ modelCalls' = modelCalls
                 /\ loopResult' # NoResult
                 /\ loopResult'.usage = totalUsage )
  /\ (lpc = "exhausted") =>
       (loopResult # NoResult /\ loopResult.usage = totalUsage)

\* C19 as stated: every tool invocation ends within the tool's timeout,
\* however the search service behaves: it settles with a result or with an
\* error, a timeout is an error, and the error becomes the content of the
\* call's result message.
C19_EveryInvocationBounded ==
  /\ (lpc = "executing_tools" /\ toolIdx <= Len(response.toolCalls)) =>
       \A outcome \in SearchOutcomes :
         LET r == ToolOutcome(response.toolCalls[toolIdx], tavilyApiKey, outcome) IN
           /\ Resolves(r)
           /\ ~r.ok => CatchToolError(r).caught
  /\ \A k \in 1..Len(toolLog) :
       toolLog[k].value = "Tavily search timeout" =>
         \E p \in 1..Len(currentMessages) :
           /\ currentMessages[p].tool_call_id = toolLog[k].id
           /\ currentMessages[p].content = ErrorContent("Tavily search timeout")

\* C27 as stated: the budget error is raised straight from the wait for the
\* model, and none of the tool calls requested by the last model response
\* has been executed when it is raised.
C27_BudgetErrorBeforeTools ==
  /\ [][lpc' = "exhausted" => lpc = "awaiting_model"]_vars
  /\ [](lpc = "exhausted" =>
         \A k \in 1..Len(toolLog) : \A j \in 1..Len(response.toolCalls) :
           toolLog[k].id # response.toolCalls[j].id)

(***************************************************************************)
(* Properties of the documentation crawl                                   *)
(***************************************************************************)
\* C24: crawlInBatches never ends with an error, and the array it returns
\* holds one result per link, the k-th for the k-th link: success = true
\* with the page when the crawl of the link went well, success = false with
\* an error text when it ended with a status that is not ok, a failure flag
\* or a rejected fetch; every link was requested.
C24_OneResultPerLink ==
  /\ cpc # "failed"
  /\ cpc = "returned" =>
       /\ Len(crawlReturn) = Len(links)
       /\ \A k \in 1..Len(links) :
            /\ requests[k].state = "fulfilled"
            /\ crawlReturn[k].url = links[k].url
            /\ crawlReturn[k].anchorText = links[k].anchorText
            /\ crawlReturn[k].success = (requests[k].outcome = "ok")
            /\ crawlReturn[k].success => crawlReturn[k].markdown # NoField
            /\ ~crawlReturn[k].success => crawlReturn[k].error # NoField

\* C24 witness: a crawl of several batches has returned, a link of the
\* first batch failed with a rejected fetch and a later link was crawled
C24_Witness ==
  /\ cpc = "returned"
  /\ Len(links) > crawlBatchSize
  /\ requests[1].outcome = "network_error"
  /\ crawlReturn[Len(links)].success

\* the batch of the k-th link, counted from 0
BatchOf(k) == (k - 1) \div crawlBatchSize

Started(k) == requests[k].state # "not_started"

\* C25: at most batchSize requests are in flight, and a request is started
\* only after every request of the batches before its own has completed.
C25_BatchesDoNotOverlap ==
  /\ Cardinality({k \in 1..Len(links) : requests[k].state = "in_flight"})
       <= crawlBatchSize
  /\ \A k, j \in 1..Len(links) :
       (Started(k) /\ BatchOf(j) < BatchOf(k)) =>
         requests[j].state \in {"fulfilled", "rejected"}

\* C25 witness: with the default batch size the requests of the second batch
\* are in flight after those of the first have completed
C25_Witness ==
  /\ crawlBatchSize = DEFAULT_CRAWL_BATCH_SIZE
  /\ Len(links) > crawlBatchSize
  /\ requests[crawlBatchSize + 1].state = "in_flight"
  /\ requests[1].state = "fulfilled"

(***************************************************************************)
(* Two concurrent data-aggregate runs for the same (owner, repo, ref) and   *)
(* the same document; every database statement is one step                  *)
(***************************************************************************)
Runs == {"A", "B"}

\* the stored rows after an earlier complete run of a document of one chunk
StoredBefore ==
  [repositories |-> 1, documents |-> 1,
   chunks |-> {[id |-> 1, run |-> "earlier", chunk_index |-> 0]},
   embeddings |-> {[id |-> 2, chunk_id |-> 1]}, nextId |-> 3]

EmptyStore ==
  [repositories |-> 0, documents |-> 0, chunks |-> {}, embeddings |-> {},
   nextId |-> 1]

\* a table without the constraint UNIQUE(document_id, chunk_index)
ChunkIndexTaken_unconstrained(rows, count) == FALSE

\* UNIQUE(document_id, chunk_index): an insert of the indices 0..count-1
\* meets a stored row
ChunkIndexTaken(rows, count) == \E c \in rows : c.chunk_index < count

\* chunk_id REFERENCES document_chunks(id): some chunk row is gone
ChunkMissing(rows, ids) == \E i \in ids : \A c \in rows : c.id # i

\* UNIQUE(chunk_id): a stored embedding hangs on one of the chunks
EmbeddingTaken(rows, ids) == \E e \in rows : e.chunk_id \in ids

RaceInit ==
  /\ aggStore \in {EmptyStore, StoredBefore}
  /\ aggRuns \in [Runs -> [pc : {"check"}, force : BOOLEAN, found : {FALSE},
                           count : 1..MaxChunksPerRun, ids : {{}}]]
  /\ LoopIdle
  /\ EmbedIdle
  /\ RagIdle
  /\ IngestIdle
  /\ RetrieveIdle
  /\ CrawlIdle
  /\ ChatIdle
  /\ StoreCallIdle
  /\ ApiIdle

\* if (!body.force) { exists = await isRepositoryProcessed(...) ... 409 }
ForceCheck(r) ==
  /\ aggRuns[r].pc = "check"
  /\ \E queryFails \in BOOLEAN :
       aggRuns' = [aggRuns EXCEPT ![r].pc =
          IF /\ ~aggRuns[r].force
             /\ isRepositoryProcessed(aggStore.repositories > 0, queryFails)
            THEN "rejected" ELSE "find"]
  /\ UNCHANGED aggStore

\* upsertRepository: the select
FindRepository(r) ==
  /\ aggRuns[r].pc = "find"
  /\ aggRuns' = [aggRuns EXCEPT ![r].pc = "write",
                                ![r].found = aggStore.repositories > 0]
  /\ UNCHANGED aggStore

\* upsertRepository: the update of the row found, or the insert, which
\* UNIQUE(owner, repo, ref) refuses when the row exists by now
WriteRepository(r) ==
  /\ aggRuns[r].pc = "write"
  /\ IF aggRuns[r].found
       THEN /\ aggRuns' = [aggRuns EXCEPT ![r].pc = "document"]
            /\ UNCHANGED aggStore
       ELSE IF aggStore.repositories > 0
         THEN /\ aggRuns' = [aggRuns EXCEPT ![r].pc = "failed"]
              /\ UNCHANGED aggStore
         ELSE /\ aggRuns' = [aggRuns EXCEPT ![r].pc = "document"]
              /\ aggStore' = [aggStore EXCEPT !.repositories = @ + 1]

\* storeDocument: upsert with onConflict 'repository_id,url'
UpsertDocument(r) ==
  /\ aggRuns[r].pc = "document"
  /\ aggRuns' = [aggRuns EXCEPT ![r].pc = "delete_chunks"]
  /\ aggStore' = [aggStore EXCEPT !.documents = IF @ = 0 THEN 1 ELSE @]

\* storeChunks: delete the document's chunks; their embeddings cascade
DeleteDocumentChunks(r) ==
  /\ aggRuns[r].pc = "delete_chunks"
  /\ aggRuns' = [aggRuns EXCEPT ![r].pc = "insert_chunks"]
  /\ aggStore' = [aggStore EXCEPT !.chunks = {}, !.embeddings = {}]

\* storeChunks: the insert of the run's chunks, one statement
InsertChunks(r) ==
  /\ aggRuns[r].pc = "insert_chunks"
  /\ IF ChunkIndexTaken(aggStore.chunks, aggRuns[r].count)
       THEN /\ aggRuns' = [aggRuns EXCEPT ![r].pc = "finish"]
            /\ UNCHANGED aggStore
       ELSE LET first == aggStore.nextId
                rows == {[id |-> first + k, run |-> r, chunk_index |-> k] :
                           k \in 0..(aggRuns[r].count - 1)}
            IN /\ aggRuns' = [aggRuns EXCEPT ![r].pc = "delete_embeddings",
                                             ![r].ids = {c.id : c \in rows}]
               /\ aggStore' = [aggStore EXCEPT !.chunks = @ \cup rows,
                                               !.nextId = @ + aggRuns[r].count]

\* storeEmbeddings: delete the embeddings of the run's chunk records
DeleteEmbeddings(r) ==
  /\ aggRuns[r].pc = "delete_embeddings"
  /\ aggRuns' = [aggRuns EXCEPT ![r].pc = "insert_embeddings"]
  /\ aggStore' = [aggStore EXCEPT !.embeddings =
                    {e \in @ : e.chunk_id \notin aggRuns[r].ids}]

\* storeEmbeddings: the insert, refused when a chunk row is gone or has an
\* embedding
InsertEmbeddings(r) ==
  /\ aggRuns[r].pc = "insert_embeddings"
  /\ aggRuns' = [aggRuns EXCEPT ![r].pc = "finish"]
  /\ IF \/ ChunkMissing(aggStore.chunks, aggRuns[r].ids)
        \/ EmbeddingTaken(aggStore.embeddings, aggRuns[r].ids)
       THEN UNCHANGED aggStore
       ELSE LET ordered == CHOOSE f \in [1..Cardinality(aggRuns[r].ids) -> aggRuns[r].ids] :
                              \A i, j \in DOMAIN f : i < j => f[i] < f[j]
            IN aggStore' = [aggStore EXCEPT
                 !.embeddings = @ \cup {[id |-> aggStore.nextId + k - 1,
                                         chunk_id |-> ordered[k]] : k \in DOMAIN ordered},
                 !.nextId = @ + Cardinality(aggRuns[r].ids)]

\* updateRepositoryStats and the response
RaceFinish(r) ==
  /\ aggRuns[r].pc = "finish"
  /\ aggRuns' = [aggRuns EXCEPT ![r].pc = "done"]
  /\ UNCHANGED aggStore

outsideRace == <<lvars, evars, rvars, ivars, qvars, cvars, hvars, svars, avars>>

RaceNext ==
  \/ \E r \in Runs : ForceCheck(r) /\ UNCHANGED outsideRace
  \/ \E r \in Runs : FindRepository(r) /\ UNCHANGED outsideRace
  \/ \E r \in Runs : WriteRepository(r) /\ UNCHANGED outsideRace
  \/ \E r \in Runs : UpsertDocument(r) /\ UNCHANGED outsideRace
  \/ \E r \in Runs : DeleteDocumentChunks(r) /\ UNCHANGED outsideRace
  \/ \E r \in Runs : InsertChunks(r) /\ UNCHANGED outsideRace
  \/ \E r \in Runs : DeleteEmbeddings(r) /\ UNCHANGED outsideRace
  \/ \E r \in Runs : InsertEmbeddings(r) /\ UNCHANGED outsideRace
  \/ \E r \in Runs : RaceFinish(r) /\ UNCHANGED outsideRace

RaceSpec == RaceInit /\ [][RaceNext]_vars

(***************************************************************************)
(* One call of storeEmbeddings with any chunk records and vectors          *)
(***************************************************************************)
RecordLists == {[k \in 1..n |-> [id |-> k]] : n \in 0..MaxRecords}

VectorLists ==
  UNION {[1..n -> {"v", "w"}] : n \in 0..MaxRecords}

StoredEmbeddings ==
  SUBSET {[chunk_id |-> i, embedding |-> "old"] : i \in 1..(MaxRecords + 1)}

StoreCallInit ==
  /\ storeCall \in [pc : {"call"}, chunkRecords : RecordLists,
                    embeddings : VectorLists, stored : StoredEmbeddings,
                    before : {{}}, raised : {FALSE}]
  /\ LoopIdle
  /\ EmbedIdle
  /\ RagIdle
  /\ IngestIdle
  /\ RetrieveIdle
  /\ CrawlIdle
  /\ ChatIdle
  /\ RaceIdle
  /\ ApiIdle

CallStoreEmbeddings ==
  /\ storeCall.pc = "call"
  /\ \E outcome \in {"ok", "delete_error", "insert_error"} :
       LET r == storeEmbeddings(storeCall.chunkRecords, storeCall.embeddings,
                                storeCall.stored, outcome)
       IN storeCall' = [storeCall EXCEPT !.pc = "returned",
                                         !.before = storeCall.stored,
                                         !.stored = r.embeddings,
                                         !.raised = r.raised]

StoreCallNext ==
  \/ CallStoreEmbeddings
       /\ UNCHANGED <<lvars, evars, rvars, ivars, qvars, cvars, hvars, xvars, avars>>

StoreCallSpec == StoreCallInit /\ [][StoreCallNext]_vars

LengthsDiffer == Len(storeCall.chunkRecords) # Len(storeCall.embeddings)

\* C40 as stated: a call of storeEmbeddings with different numbers of chunk
\* records and vectors fails and leaves the stored embeddings as they were.
C40_MismatchFails ==
  (storeCall.pc = "returned" /\ LengthsDiffer) =>
    /\ storeCall.raised
    /\ storeCall.stored = storeCall.before

\* C40: a call of storeEmbeddings with different numbers of chunk records
\* and vectors leaves the stored embeddings as they were; it fails when
\* there is at least one chunk record and returns without an error when
\* there is none.
C40_MismatchLeavesStoreUnchanged ==
  (storeCall.pc = "returned" /\ LengthsDiffer) =>
    /\ storeCall.stored = storeCall.before
    /\ storeCall.raised <=> Len(storeCall.chunkRecords) > 0

\* C40 witness: a call with two chunk records and one vector has failed
\* while an embedding of the first record is stored
C40_Witness ==
  /\ storeCall.pc = "returned"
  /\ Len(storeCall.chunkRecords) = 2
  /\ Len(storeCall.embeddings) = 1
  /\ storeCall.raised
  /\ \E e \in storeCall.before : e.chunk_id = 1

\* C38: when the effective matchThreshold is at least fallbackThreshold,
\* performRAG reports useFallback exactly when retrieveContext returned no
\* source, and a retrieval that returned sources leaves at least one source
\* after prepareContext.
C38_FallbackOnlyWithoutMatch ==
  (qpc = "performed" /\ matchThresholdOf(ragConfig) >= fallbackThreshold) =>
    /\ ragReport.useFallback <=> Len(ragSources) = 0
    /\ Len(ragSources) > 0 => Len(ragReport.sources) >= 1

\* C38 witness: retrieval with the default threshold returned several
\* sources, the first longer than the whole context; prepareContext kept a
\* cut-down first source only, and performRAG reports no fallback
C38_Witness ==
  /\ qpc = "performed"
  /\ ragConfig.matchThreshold = Undefined
  /\ Len(ragSources) >= 2
  /\ ChunkTextOf(ragSources[1].chunkId).length > maxContextLength
  /\ Len(ragReport.sources) = 1
  /\ ragReport.sources[1].chunkText.marked
  /\ ~ragReport.useFallback

(***************************************************************************)
(* The HTTP requests of generateChatCompletionWithTools: the while loop    *)
(* over model calls and, inside callOpenAI, the for loop over attempts.     *)
(* The execution of the requested tools sends no model request and is left  *)
(* to the completion loop above.                                            *)
(***************************************************************************)
\* OPENAI_CONFIG.maxRetries
OPENAI_maxRetries == 3

\* a for loop that goes round once more
AttemptsLeft_oneMore(tried) == tried <= OPENAI_maxRetries

\* for (let attempt = 0; attempt < OPENAI_CONFIG.maxRetries; attempt++)
AttemptsLeft(tried) == tried < OPENAI_maxRetries

\* what one fetch of callOpenAI can come to
FetchOutcomes == {"final", "tool_calls", "rate_limited", "error"}

ApiInit ==
  /\ apc = "while"
  /\ apiIteration = 0
  /\ apiAttempt = 0
  /\ callRequests = 0
  /\ httpRequests = 0
  /\ apiError = "none"
  /\ LoopIdle
  /\ EmbedIdle
  /\ RagIdle
  /\ IngestIdle
  /\ RetrieveIdle
  /\ CrawlIdle
  /\ ChatIdle
  /\ RaceIdle
  /\ StoreCallIdle

\* while (iterationCount < MCP_CONFIG.maxToolCalls) { iterationCount++;
\* callOpenAI(...) begins
CallOpenAI ==
  /\ apc = "while"
  /\ LoopCondition(apiIteration)
  /\ apiIteration' = apiIteration + 1
  /\ apiAttempt' = 0
  /\ callRequests' = 0
  /\ apc' = "for"
  /\ UNCHANGED <<httpRequests, apiError>>

\* the while loop ends: Maximum tool call iterations exceeded
IterationsExceeded ==
  /\ apc = "while"
  /\ ~LoopCondition(apiIteration)
  /\ apc' = "thrown"
  /\ apiError' = "Maximum tool call iterations exceeded"
  /\ UNCHANGED <<apiIteration, apiAttempt, callRequests, httpRequests>>

\* one turn of the for loop of callOpenAI: one fetch, then the return, the
\* continue after a 429, or the catch with its backoff
Fetch ==
  /\ apc = "for"
  /\ AttemptsLeft(apiAttempt)
  /\ callRequests' = callRequests + 1
  /\ httpRequests' = httpRequests + 1
  /\ \E outcome \in FetchOutcomes :
       CASE outcome = "final" ->
              /\ apc' = "returned"
              /\ UNCHANGED apiAttempt
         [] outcome = "tool_calls" ->
              /\ apc' = "while"
              /\ UNCHANGED apiAttempt
         [] OTHER ->
              /\ apc' = "for"
              /\ apiAttempt' = apiAttempt + 1
  /\ UNCHANGED <<apiIteration, apiError>>

\* the for loop ends: Failed to call OpenAI after maxRetries attempts; the
\* while loop has no catch
AttemptsExhausted ==
  /\ apc = "for"
  /\ ~AttemptsLeft(apiAttempt)
  /\ apc' = "thrown"
  /\ apiError' = "Failed to call OpenAI"
  /\ UNCHANGED <<apiIteration, apiAttempt, callRequests, httpRequests>>

ApiNext ==
  \/ CallOpenAI /\ UNCHANGED <<lvars, evars, rvars, ivars, qvars, cvars, hvars, xvars, svars>>
  \/ IterationsExceeded /\ UNCHANGED <<lvars, evars, rvars, ivars, qvars, cvars, hvars, xvars, svars>>
  \/ Fetch /\ UNCHANGED <<lvars, evars, rvars, ivars, qvars, cvars, hvars, xvars, svars>>
  \/ AttemptsExhausted /\ UNCHANGED <<lvars, evars, rvars, ivars, qvars, cvars, hvars, xvars, svars>>

ApiSpec == ApiInit /\ [][ApiNext]_vars

\* C39: a callOpenAI call sends at most OPENAI_CONFIG.maxRetries requests,
\* those answered with 429 included; a generateChatCompletionWithTools call
\* sends at most maxToolCalls * maxRetries requests; and a callOpenAI call
\* that has used up its attempts throws, which ends the while loop with
\* that error and without a further request.
C39_RequestsAreBounded ==
  /\ [](callRequests <= OPENAI_maxRetries)
  /\ [](httpRequests <= maxToolCalls * OPENAI_maxRetries)
  /\ [][(apc = "for" /\ callRequests = OPENAI_maxRetries /\ apc' # "for") =>
          \/ apc' \in {"returned", "while"}
          \/ /\ apc' = "thrown"
             /\ apiError' = "Failed to call OpenAI"
             /\ httpRequests' = httpRequests]_vars
  /\ [][(apc \in {"returned", "thrown"}) => (avars' = avars)]_vars

\* C39 witness: every model call took all its attempts, the last one
\* without success, and the requests add up to maxToolCalls * maxRetries
C39_Witness ==
  /\ apc = "thrown"
  /\ apiError = "Failed to call OpenAI"
  /\ apiIteration = maxToolCalls
  /\ callRequests = OPENAI_maxRetries
  /\ httpRequests = maxToolCalls * OPENAI_maxRetries

\* the complete chunk set of a run: its rows, one per index 0..count-1
CompleteSetOf(r) ==
  /\ aggStore.chunks # {}
  /\ \A c \in aggStore.chunks : c.run = r
  /\ {c.chunk_index : c \in aggStore.chunks} = 0..(aggRuns[r].count - 1)

RunEnded(r) == aggRuns[r].pc \in {"rejected", "failed", "done"}

C37_EveryDocumentCounted ==
  ipc = "finish" =>
    /\ stats.documentsProcessed + stats.documentsSkipped + stats.documentsFailed
         = Len(allDocuments)
    /\ stats.documentsFailed = 0 => stats.embeddingsCreated = stats.chunksCreated

\* C35 as stated: between two requests the stored history of the session is
\* made of pairs, a user message and the assistant reply stored after it,
\* whatever failed while the message was handled.
C35_EveryUserMessageAnswered ==
  hpc = "ready" =>
    /\ Len(chatHistory) % 2 = 0
    /\ \A k \in 1..Len(chatHistory) :
         chatHistory[k] = (IF k % 2 = 1 THEN "user" ELSE "assistant")

(***************************************************************************)
(* Further properties of ingestion                                         *)
(***************************************************************************)
\* C34: the chunks chunkMarkdown returned for a document carry the indices
\* 0, 1, ..., n - 1 in order, and the metadata of each chunk gives its own
\* index as chunkIndex and n, the number of chunks returned, as totalChunks.
C34_IndicesAreContiguous ==
  \A k \in 1..Len(chunks) :
    /\ chunks[k].index = k - 1
    /\ chunks[k].metadata.chunkIndex = chunks[k].index
    /\ chunks[k].metadata.totalChunks = Len(chunks)

\* C34 witness: a document that is not blank was cut into two chunks
C34_Witness ==
  /\ ipc = "store_chunks"
  /\ Len(trim(CurrentDoc.content)) > 0
  /\ Len(chunks) = 2

(***************************************************************************)
(* Properties of the chat request handlers                                 *)
(***************************************************************************)
\* C26 as stated: when an init request with force = true finds the
\* repository in storage, a data-aggregate run with force has been made for
\* it by the time the chat session is created.
C26_ForceReprocessesExisting ==
  (hpc = "init_session" /\ hForce /\ hFound) =>
    \E k \in 1..Len(hProcessCalls) : hProcessCalls[k] = TRUE

\* C28 as stated: a completion made with sufficient context is grounded in
\* the retrieved sources and offers no tool to the model, and a completion
\* that offers the search tool is made only with insufficient context.
C28_ToolsOnlyWhenInsufficient ==
  completion.called =>
    /\ ~ragResult.useFallback =>
         (completion.tools = <<>> /\ completion.context = ragResult.sources)
    /\ completion.tools # <<>> => ragResult.useFallback

(***************************************************************************)
(* Further properties of the tool-augmented completion loop                *)
(***************************************************************************)
\* C33: every step of the loop leaves the caller's message list as it is and
\* keeps the conversation so far, message by message, as the beginning of the
\* new conversation; the conversation always begins with the caller's messages.
C33_ConversationOnlyGrows ==
  /\ [][/\ messages' = messages
        /\ Len(currentMessages') >= Len(currentMessages)
        /\ SubSeq(currentMessages', 1, Len(currentMessages)) = currentMessages]_vars
  /\ [](lpc # "idle" =>
         /\ Len(currentMessages) >= Len(messages)
         /\ SubSeq(currentMessages, 1, Len(messages)) = messages)

\* C33 witness: the third model call is about to be made with the messages
\* of two rounds of tool calls appended
C33_Witness ==
  /\ lpc = "awaiting_model"
  /\ modelCalls = 2
  /\ Len(currentMessages) >= Len(messages) + 4
  /\ messages = InitialMessages

====
